---- MODULE Spec2Model ----
(***************************************************************************)
(* Model of the Relaynet core library: the RAMF codec                      *)
(* (ramf/serialization.ts) and the private key store                       *)
(* (keyStores/PrivateKeyStore.ts with its in-memory backend).              *)
(*                                                                         *)
(* Representation.                                                         *)
(*  - A JavaScript string is a sequence of UTF-16 code units (naturals).   *)
(*  - A byte buffer that only matters through its length (a payload) is a  *)
(*    record [len, fill]: len octets, each equal to fill.                  *)
(*  - A serialization is [length, head, cms]: its byte length, its first   *)
(*    min(length, 10) octets, and the CMS SignedData that follows them.    *)
(*  - An error is [name, message, cause]; NoError stands for "no throw".   *)
(***************************************************************************)
EXTENDS Integers, Sequences, FiniteSets, TLC

(***************************************************************************)
(* Program constants (ramf/serialization.ts).                              *)
(***************************************************************************)
MAX_RAMF_MESSAGE_LENGTH == 9437184

MAX_RECIPIENT_ADDRESS_LENGTH == 1024

MAX_ID_LENGTH == 64

RAMF_MAX_TTL == 15552000

MAX_PAYLOAD_LENGTH == 2 ^ 23 - 1

\* Buffer.from('Relaynet')
FORMAT_SIGNATURE_CONSTANT == <<82, 101, 108, 97, 121, 110, 101, 116>>

(***************************************************************************)
(* Bounds of the model.                                                    *)
(***************************************************************************)
\* Recipient addresses are all strings over Alphabet of at most this length
\* (plus the two strings at the 1024-character boundary).
MaxAddrLen == 1

\* At most this many alterations are applied to a serialization in flight.
MaxTampers == 2

(***************************************************************************)
(* Errors.                                                                 *)
(***************************************************************************)
NoError == [name |-> "none", message |-> "", cause |-> "none"]

RAMFSyntaxError(message) ==
  [name |-> "RAMFSyntaxError", message |-> message, cause |-> "none"]

\* RelaynetError(cause, message): the message becomes "<message>: <cause>".
RAMFValidationError(message) ==
  [name |-> "RAMFValidationError", message |-> message, cause |-> "none"]

RAMFValidationErrorWrapping(cause, message) ==
  [name |-> "RAMFValidationError",
   message |-> message \o ": " \o cause.message,
   cause |-> cause.name]

(***************************************************************************)
(* Strings and their encodings.                                            *)
(***************************************************************************)
Max(a, b) == IF a < b THEN b ELSE a

Min(a, b) == IF a < b THEN a ELSE b

Rep(c, n) == [i \in 1..n |-> c]

\* Code units used to build strings: '0', ':', 'a' and 'g'. The explicit
\* strings of the model add U+00E9 (233), a character outside ASCII.
Alphabet == {48, 58, 97, 103}

REPLACEMENT_CHARACTER == 65533

\* Rendering of a string inside an error message.
CharName(c) ==
  CASE c = 48 -> "0"
    [] c = 58 -> ":"
    [] c = 97 -> "a"
    [] c = 103 -> "g"
    [] OTHER -> "\\u" \o ToString(c)

RECURSIVE StringText(_)
StringText(s) ==
  IF s = <<>> THEN ""
  ELSE IF Len(s) > 8 THEN CharName(s[1]) \o "...(" \o ToString(Len(s)) \o ")"
  ELSE CharName(s[1]) \o StringText(Tail(s))

\* new asn1js.VisibleString({ value }): one octet per code unit, the code
\* unit's low 8 bits (asn1js LocalSimpleStringValueBlock.fromString).
VisibleStringOctets(s) == [i \in 1..Len(s) |-> s[i] % 256]

IsContinuation(b) == 128 <= b /\ b <= 191

\* new TextDecoder().decode(octets): UTF-8 with U+FFFD for each ill-formed
\* subsequence (one- and two-octet forms; any other lead octet is ill-formed
\* unless continuation octets follow, which no string of the model produces).
RECURSIVE Utf8DecodeFrom(_, _)
Utf8DecodeFrom(b, i) ==
  IF i > Len(b) THEN <<>>
  ELSE IF b[i] < 128 THEN <<b[i]>> \o Utf8DecodeFrom(b, i + 1)
  ELSE IF 194 <= b[i] /\ b[i] <= 223 /\ i < Len(b) /\ IsContinuation(b[i + 1])
    THEN <<(b[i] - 192) * 64 + (b[i + 1] - 128)>> \o Utf8DecodeFrom(b, i + 2)
  ELSE <<REPLACEMENT_CHARACTER>> \o Utf8DecodeFrom(b, i + 1)

TextDecode(b) ==
  IF \A i \in 1..Len(b) : b[i] < 128 THEN b ELSE Utf8DecodeFrom(b, 1)

IsAsciiAlpha(c) == (65 <= c /\ c <= 90) \/ (97 <= c /\ c <= 122)

IsAsciiDigit(c) == 48 <= c /\ c <= 57

IsSchemeChar(c) == IsAsciiAlpha(c) \/ IsAsciiDigit(c) \/ c \in {43, 45, 46}

\* new URL(s) does not throw. Without a base URL the parser needs a scheme,
\* ALPHA *( ALPHA / DIGIT / "+" / "-" / "." ) ":". What follows a scheme
\* that is not special and is not followed by "/" is an opaque path, which
\* always parses. (The model's strings hold no "/", "\", white space or
\* control character, and spell no special scheme.)
IsAbsoluteUrl(s) ==
  \E i \in 2..Len(s) :
    /\ s[i] = 58
    /\ IsAsciiAlpha(s[1])
    /\ \A j \in 2..(i - 1) : IsSchemeChar(s[j])

\* PRIVATE_ADDRESS_REGEX = /^[a-f0-9]+$/
IsHexChar(c) == IsAsciiDigit(c) \/ (97 <= c /\ c <= 102)

MatchesPrivateAddressRegex(s) ==
  Len(s) >= 1 /\ \A i \in 1..Len(s) : IsHexChar(s[i])

\* numberDecimal.toString(16) for an octet.
HexDigit(d) ==
  CASE d = 0 -> "0" [] d = 1 -> "1" [] d = 2 -> "2" [] d = 3 -> "3"
    [] d = 4 -> "4" [] d = 5 -> "5" [] d = 6 -> "6" [] d = 7 -> "7"
    [] d = 8 -> "8" [] d = 9 -> "9" [] d = 10 -> "a" [] d = 11 -> "b"
    [] d = 12 -> "c" [] d = 13 -> "d" [] d = 14 -> "e" [] d = 15 -> "f"

RECURSIVE NumberToHex(_)
NumberToHex(n) ==
  IF n < 16 THEN HexDigit(n) ELSE NumberToHex(n \div 16) \o HexDigit(n % 16)

decimalToHex(numberDecimal) == "0x" \o NumberToHex(numberDecimal)

(***************************************************************************)
(* ASN.1 helpers.                                                          *)
(***************************************************************************)
\* Number of octets of the minimal two's complement encoding of n: the
\* least k with -2^(8k-1) <= n < 2^(8k-1).
RECURSIVE TwosComplementLength(_, _)
TwosComplementLength(n, k) ==
  IF (IF n < 0 THEN -n - 1 ELSE n) \div (2 ^ (8 * (k - 1))) < 128 THEN k
  ELSE TwosComplementLength(n, k + 1)

\* Big-endian octets of the non-negative v on exactly k octets.
RECURSIVE BigEndian(_, _)
BigEndian(v, k) ==
  IF k = 0 THEN <<>> ELSE BigEndian(v \div 256, k - 1) \o <<v % 256>>

\* new asn1js.Integer({ value }): the value block's octets (utilEncodeTC).
IntegerOctets(n) ==
  LET k == TwosComplementLength(n, 1)
  IN BigEndian(IF n < 0 THEN n + 2 ^ (8 * k) ELSE n, k)

RECURSIVE UnsignedValue(_)
UnsignedValue(b) ==
  IF b = <<>> THEN 0
  ELSE UnsignedValue(SubSeq(b, 1, Len(b) - 1)) * 256 + b[Len(b)]

(***************************************************************************)
(* Numbers of the program. A bigint or a number is a record: within four   *)
(* octets it is narrow and `value` holds it; beyond them it is wide and    *)
(* held exactly by its sign and the binary digits of its magnitude, the    *)
(* most significant first.                                                 *)
(***************************************************************************)
NumberOf(v) == [wide |-> FALSE, value |-> v, negative |-> v < 0, bits |-> <<>>, finite |-> TRUE]

WideNumber(negative, bits) == [wide |-> TRUE, value |-> 0, negative |-> negative, bits |-> bits, finite |-> TRUE]

Infinity(negative) == [wide |-> TRUE, value |-> 0, negative |-> negative, bits |-> <<>>, finite |-> FALSE]

Front(s) == SubSeq(s, 1, Len(s) - 1)

Last(s) == s[Len(s)]

Zeros(n) == [i \in 1..n |-> 0]

\* A sequence of digits without its leading zeros.
StripZeros(digits) ==
  IF \A i \in 1..Len(digits) : digits[i] = 0 THEN <<>>
  ELSE SubSeq(digits, CHOOSE i \in 1..Len(digits) : digits[i] # 0 /\ \A j \in 1..(i - 1) : digits[j] = 0, Len(digits))

\* a < b for two sequences of digits without leading zeros.
DigitsLessThan(a, b) ==
  IF Len(a) # Len(b) THEN Len(a) < Len(b)
  ELSE \E i \in 1..Len(a) : a[i] < b[i] /\ \A j \in 1..(i - 1) : a[j] = b[j]

OctetsBits(b) == [i \in 1..(8 * Len(b)) |-> (b[((i - 1) \div 8) + 1] \div (2 ^ (7 - ((i - 1) % 8)))) % 2]

InvertBits(bits) == [i \in 1..Len(bits) |-> 1 - bits[i]]

\* The binary digits of the number after the one of these binary digits.
SuccessorBits(bits) ==
  IF \A i \in 1..Len(bits) : bits[i] = 1 THEN <<1>> \o Zeros(Len(bits))
  ELSE LET last == CHOOSE i \in 1..Len(bits) : bits[i] = 0 /\ \A j \in (i + 1)..Len(bits) : bits[j] = 1
       IN [i \in 1..Len(bits) |-> IF i < last THEN bits[i] ELSE IF i = last THEN 1 ELSE 0]

\* The octets of an INTEGER without the leading ones that only repeat its
\* sign.
RECURSIVE TrimSign(_)
TrimSign(b) ==
  IF Len(b) > 1 /\ ((b[1] = 0 /\ b[2] < 128) \/ (b[1] = 255 /\ b[2] >= 128))
    THEN TrimSign(Tail(b))
  ELSE b

\* new asn1js.Integer({ valueHex }).toBigInt(): the two's complement value
\* of the octets, whatever their number.
getIntegerFromPrimitiveBlock(b) ==
  LET t == TrimSign(b)
  IN IF t = <<>> THEN NumberOf(0)
     ELSE IF Len(t) <= 4
       THEN NumberOf((IF t[1] >= 128 THEN t[1] - 256 ELSE t[1]) * (256 ^ (Len(t) - 1))
                     + UnsignedValue(Tail(t)))
     ELSE IF t[1] >= 128
       THEN WideNumber(TRUE, StripZeros(SuccessorBits(InvertBits(OctetsBits(t)))))
     ELSE WideNumber(FALSE, StripZeros(OctetsBits(t)))

\* a < b of the program, for two numbers.
LessThan(a, b) ==
  IF ~a.wide /\ ~b.wide THEN a.value < b.value
  ELSE IF ~b.wide THEN a.negative
  ELSE IF ~a.wide THEN ~b.negative
  ELSE IF a.negative # b.negative THEN a.negative
  ELSE IF a.finite # b.finite THEN a.finite # a.negative
  ELSE IF ~a.finite THEN FALSE
  ELSE IF a.negative THEN DigitsLessThan(b.bits, a.bits)
  ELSE DigitsLessThan(a.bits, b.bits)

\* The number of binary digits of the significand of a number, and the
\* number of binary digits from which a number is infinite.
SignificandBits == 53

InfiniteBits == 1025

\* Number(bigint): the nearest number, the one of even significand when two
\* are as near. An integer of at most 53 binary digits is kept as it is.
Number(bigint) ==
  IF ~bigint.wide \/ Len(bigint.bits) <= SignificandBits THEN bigint
  ELSE
    LET kept == SubSeq(bigint.bits, 1, SignificandBits)
        dropped == SubSeq(bigint.bits, SignificandBits + 1, Len(bigint.bits))
        roundUp == /\ dropped[1] = 1
                   /\ \/ kept[SignificandBits] = 1
                      \/ \E i \in 2..Len(dropped) : dropped[i] = 1
        rounded == (IF roundUp THEN SuccessorBits(kept) ELSE kept) \o Zeros(Len(dropped))
    IN IF Len(rounded) >= InfiniteBits THEN Infinity(bigint.negative)
       ELSE WideNumber(bigint.negative, rounded)

(***************************************************************************)
(* Number::toString. A natural number is a sequence of limbs, each below   *)
(* LimbBase, the most significant first; zero is the empty sequence. A     *)
(* decimal is a sequence of decimal digits, the most significant first.    *)
(***************************************************************************)
LimbDigits == 6

LimbBase == 10 ^ LimbDigits

\* The limbs of n * factor + carry.
RECURSIVE TimesPlus(_, _, _)
TimesPlus(n, factor, carry) ==
  IF n = <<>> THEN (IF carry = 0 THEN <<>> ELSE <<carry>>)
  ELSE TimesPlus(Front(n), factor, (Last(n) * factor + carry) \div LimbBase)
         \o <<(Last(n) * factor + carry) % LimbBase>>

\* The limbs of the natural number of these octets.
RECURSIVE OctetsToNatural(_)
OctetsToNatural(octets) ==
  IF octets = <<>> THEN <<>>
  ELSE TimesPlus(OctetsToNatural(Front(octets)), 256, Last(octets))

\* The octets of these binary digits.
BitsOctets(bits) ==
  LET count == (Len(bits) + 7) \div 8
      bit(i) == IF i <= 8 * count - Len(bits) THEN 0 ELSE bits[i - (8 * count - Len(bits))]
  IN [k \in 1..count |->
        128 * bit(8 * k - 7) + 64 * bit(8 * k - 6) + 32 * bit(8 * k - 5) + 16 * bit(8 * k - 4)
        + 8 * bit(8 * k - 3) + 4 * bit(8 * k - 2) + 2 * bit(8 * k - 1) + bit(8 * k)]

BitsToNatural(bits) == OctetsToNatural(BitsOctets(bits))

NaturalPad(n, length) == Zeros(length - Len(n)) \o n

\* a + b + carry for two sequences of limbs of one length.
RECURSIVE NaturalAddPadded(_, _, _)
NaturalAddPadded(a, b, carry) ==
  IF a = <<>> THEN (IF carry = 0 THEN <<>> ELSE <<carry>>)
  ELSE NaturalAddPadded(Front(a), Front(b), (Last(a) + Last(b) + carry) \div LimbBase)
         \o <<(Last(a) + Last(b) + carry) % LimbBase>>

\* a - b - borrow for two sequences of limbs of one length, b <= a.
RECURSIVE NaturalSubtractPadded(_, _, _)
NaturalSubtractPadded(a, b, borrow) ==
  IF a = <<>> THEN <<>>
  ELSE NaturalSubtractPadded(Front(a), Front(b), IF Last(a) - Last(b) - borrow < 0 THEN 1 ELSE 0)
         \o <<(Last(a) - Last(b) - borrow + LimbBase) % LimbBase>>

NaturalWidth(a, b) == IF Len(a) < Len(b) THEN Len(b) ELSE Len(a)

NaturalAdd(a, b) ==
  StripZeros(NaturalAddPadded(NaturalPad(a, NaturalWidth(a, b)), NaturalPad(b, NaturalWidth(a, b)), 0))

NaturalSubtract(a, b) ==
  StripZeros(NaturalSubtractPadded(NaturalPad(a, NaturalWidth(a, b)), NaturalPad(b, NaturalWidth(a, b)), 0))

\* The decimal digits of a natural number, and the natural number of
\* decimal digits.
NaturalToDecimal(n) ==
  StripZeros([i \in 1..(LimbDigits * Len(n)) |->
                (n[((i - 1) \div LimbDigits) + 1] \div (10 ^ (LimbDigits - 1 - ((i - 1) % LimbDigits)))) % 10])

DecimalToNatural(d) ==
  LET count == (Len(d) + LimbDigits - 1) \div LimbDigits
      digit(i) == IF i <= LimbDigits * count - Len(d) THEN 0 ELSE d[i - (LimbDigits * count - Len(d))]
  IN StripZeros([k \in 1..count |->
        100000 * digit(6 * k - 5) + 10000 * digit(6 * k - 4) + 1000 * digit(6 * k - 3)
        + 100 * digit(6 * k - 2) + 10 * digit(6 * k - 1) + digit(6 * k)])

\* The decimal digits of the number after the one of these decimal digits.
DecimalSuccessor(d) ==
  IF \A i \in 1..Len(d) : d[i] = 9 THEN <<1>> \o Zeros(Len(d))
  ELSE LET last == CHOOSE i \in 1..Len(d) : d[i] # 9 /\ \A j \in (i + 1)..Len(d) : d[j] = 9
       IN [i \in 1..Len(d) |-> IF i < last THEN d[i] ELSE IF i = last THEN d[i] + 1 ELSE 0]

\* The decimals of k significant digits next to the decimal x, below it and
\* above it.
DecimalBelow(x, k) == SubSeq(x, 1, k) \o Zeros(Len(x) - k)

DecimalAbove(x, k) == DecimalSuccessor(SubSeq(x, 1, k)) \o Zeros(Len(x) - k)

\* Whether the decimal c reads back as the number whose neighbours are half
\* of lower2 and half of upper2 away; the bounds themselves read back as it
\* when its significand is even.
ReadsBack(c, lower2, upper2, inclusive) ==
  LET c2 == TimesPlus(DecimalToNatural(c), 2, 0)
  IN IF inclusive THEN ~DigitsLessThan(c2, lower2) /\ ~DigitsLessThan(upper2, c2)
     ELSE DigitsLessThan(lower2, c2) /\ DigitsLessThan(c2, upper2)

\* Whether a decimal of k significant digits next to x reads back.
Reads(x, k, lower2, upper2, inclusive) ==
  \/ ReadsBack(DecimalBelow(x, k), lower2, upper2, inclusive)
  \/ ReadsBack(DecimalAbove(x, k), lower2, upper2, inclusive)

\* The fewest significant digits with which a decimal reads back.
FewestDigits(x, lower2, upper2, inclusive) ==
  CHOOSE k \in 1..Len(x) :
    Reads(x, k, lower2, upper2, inclusive) /\ \A j \in 1..(k - 1) : ~Reads(x, j, lower2, upper2, inclusive)

\* Twice a - b for two decimals, b <= a.
DecimalDistance(a, b) == NaturalSubtract(TimesPlus(DecimalToNatural(a), 2, 0), TimesPlus(DecimalToNatural(b), 2, 0))

\* Of the decimals below and above: the one that reads back, the nearer one
\* when both do, and the one of even last digit when they are as near.
NearerDecimal(below, above, belowReads, aboveReads, belowDistance, aboveDistance, belowEven) ==
  IF ~aboveReads THEN below
  ELSE IF ~belowReads THEN above
  ELSE IF DigitsLessThan(belowDistance, aboveDistance) THEN below
  ELSE IF DigitsLessThan(aboveDistance, belowDistance) THEN above
  ELSE IF belowEven THEN below
  ELSE above

ShortestAmong(x, below, above, lower2, upper2, inclusive, belowEven) ==
  NearerDecimal(below, above, ReadsBack(below, lower2, upper2, inclusive), ReadsBack(above, lower2, upper2, inclusive),
                DecimalDistance(x, below), DecimalDistance(above, x), belowEven)

ShortestWith(x, fewest, lower2, upper2, inclusive) ==
  ShortestAmong(x, DecimalBelow(x, fewest), DecimalAbove(x, fewest), lower2, upper2, inclusive, x[fewest] % 2 = 0)

\* The decimal of the fewest significant digits that reads back as the
\* number of decimal digits x; of the two decimals of that many digits
\* around x, the nearer one, and the one of even last digit when they are as
\* near.
ShortestDecimal(x, lower2, upper2, inclusive) ==
  ShortestWith(x, FewestDigits(x, lower2, upper2, inclusive), lower2, upper2, inclusive)

RECURSIVE DigitsToString(_)
DigitsToString(d) ==
  IF d = <<>> THEN "" ELSE ToString(d[1]) \o DigitsToString(Tail(d))

\* A sequence of digits without its trailing zeros.
StripTrailingZeros(d) ==
  SubSeq(d, 1, CHOOSE i \in 1..Len(d) : d[i] # 0 /\ \A j \in (i + 1)..Len(d) : d[j] = 0)

\* The greatest number of decimal digits written without an exponent.
MaxPlainDigits == 21

\* The digits of a decimal as Number::toString writes them.
DecimalToString(d) ==
  IF Len(d) <= MaxPlainDigits THEN DigitsToString(d)
  ELSE ToString(d[1])
       \o (IF Len(StripTrailingZeros(d)) > 1 THEN "." \o DigitsToString(Tail(StripTrailingZeros(d))) ELSE "")
       \o "e+" \o ToString(Len(d) - 1)

\* Twice the distance from a number of these binary digits to the middle
\* of the next number, and of the one before, which is nearer when the
\* significand is a power of two.
HalfSpacingAbove(binary) == BitsToNatural(<<1>> \o Zeros(Len(binary) - SignificandBits))

HalfSpacingBelow(binary) ==
  IF \A i \in 2..SignificandBits : binary[i] = 0
    THEN BitsToNatural(<<1>> \o Zeros(Len(binary) - SignificandBits - 1))
  ELSE HalfSpacingAbove(binary)

\* The digits written for the number of these binary digits, whose value
\* and twice whose value are the natural numbers given.
ShortestOfNatural(binary, natural, doubled) ==
  IF Len(binary) <= SignificandBits THEN NaturalToDecimal(natural)
  ELSE ShortestDecimal(NaturalToDecimal(natural), NaturalSubtract(doubled, HalfSpacingBelow(binary)),
                       NaturalAdd(doubled, HalfSpacingAbove(binary)), binary[SignificandBits] = 0)

ShortestOfBits(binary, natural) == ShortestOfNatural(binary, natural, TimesPlus(natural, 2, 0))

\* Number::toString(number), radix 10, for a number that is an integer.
NumberToString(number) ==
  IF ~number.wide THEN ToString(number.value)
  ELSE IF ~number.finite
    THEN (IF number.negative THEN "-Infinity" ELSE "Infinity")
  ELSE (IF number.negative THEN "-" ELSE "")
       \o DecimalToString(ShortestOfBits(number.bits, BitsToNatural(number.bits)))

\* Whether the INTEGER of these octets is greater than
\* Number.MAX_SAFE_INTEGER, 2^53 - 1 (00 1f ff ff ff ff ff ff).
ExceedsMaxSafeInteger(b) ==
  LET t == TrimSign(b)
  IN /\ t # <<>>
     /\ t[1] < 128
     /\ \/ Len(t) > 7
        \/ Len(t) = 7 /\ t[1] >= 32

\* Octets of a DER length field for a value of n octets.
DerLengthOctets(n) ==
  IF n < 128 THEN 1
  ELSE IF n < 256 THEN 2
  ELSE IF n < 65536 THEN 3
  ELSE IF n < 16777216 THEN 4
  ELSE 5

\* Octets of a tag-length-value element whose value has n octets.
DerElementLength(n) == 1 + DerLengthOctets(n) + n

\* dateToASN1DateTimeInUTC(date): a GeneralizedTime in UTC with seconds
\* precision; the block holds the whole seconds since the epoch.
dateToASN1DateTimeInUTC(dateMs) == [valid |-> TRUE, seconds |-> dateMs \div 1000]

\* asn1DateTimeToDate(block): the Date (milliseconds since the epoch).
asn1DateTimeToDate(block) == block.seconds * 1000

(***************************************************************************)
(* Certificates and CMS SignedData (crypto_wrappers/cms/signedData.ts).    *)
(***************************************************************************)
\* The certificates of the model and the length of their DER serialization:
\* the sender's, and a CA certificate over 1 MiB (X.509 puts no cap on a
\* certificate's extensions).
Certificates == {"sender", "hugeCa"}

CertificateDerLength(c) == IF c = "hugeCa" THEN 1100000 ELSE 1000

RECURSIVE ChainDerLength(_)
ChainDerLength(chain) ==
  IF chain = <<>> THEN 0
  ELSE CertificateDerLength(Head(chain)) + ChainDerLength(Tail(chain))

\* Octets a SignedData adds to its content and certificates: the ContentInfo
\* and SignedData headers, the SignerInfo with its signed attributes and an
\* RSA-2048 signature.
SignedDataOverhead == 600

\* DER length of the RAMF field set: a SEQUENCE of five primitives (the
\* date time is YYYYMMDDHHMMSSZ, 15 octets).
FieldSetDerLength(recipientAddress, id, ttl, payload) ==
  DerElementLength(
    DerElementLength(Len(recipientAddress))
    + DerElementLength(Len(id))
    + DerElementLength(15)
    + DerElementLength(Len(ttl))
    + DerElementLength(payload.len))

\* cmsSignedData.sign(plaintext, privateKey, signerCertificate,
\* caCertificates): a SignedData with the plaintext encapsulated, signed by
\* the key of the signer certificate, carrying the attached certificates.
sign(plaintext, signerCertificate, caCertificates) ==
  [wellFormed |-> TRUE,
   signatureValid |-> TRUE,
   plaintext |-> plaintext,
   signerCertificate |-> signerCertificate,
   attachedCertificates |-> caCertificates,
   length |-> SignedDataOverhead + plaintext.byteLength
              + CertificateDerLength(signerCertificate)
              + ChainDerLength(caCertificates)]

CMSError(message) == [name |-> "CMSError", message |-> message, cause |-> "none"]

\* cmsSignedData.verifySignature(serialization): throws a CMSError, or
\* returns the plaintext, the signer certificate and the attached ones.
cmsVerifySignature(cms) ==
  IF ~cms.wellFormed
    THEN [error |-> CMSError("Could not deserialize CMS ContentInfo")]
  ELSE IF ~cms.signatureValid
    THEN [error |-> CMSError("Invalid signature")]
  ELSE [error |-> NoError,
        plaintext |-> cms.plaintext,
        signerCertificate |-> cms.signerCertificate,
        attachedCertificates |-> cms.attachedCertificates]

(***************************************************************************)
(* ramf/serialization.ts: validation.                                      *)
(***************************************************************************)
\* validateMessageLength with "<=" for "<": a serialization of exactly 9 MiB
\* would be refused.
validateMessageLength_Inclusive(serialization) ==
  IF MAX_RAMF_MESSAGE_LENGTH <= serialization.length
    THEN RAMFSyntaxError("Message should not be longer than 9 MiB (got "
                         \o ToString(serialization.length) \o " octets)")
  ELSE NoError

validateMessageLength(serialization) ==
  IF MAX_RAMF_MESSAGE_LENGTH < serialization.length
    THEN RAMFSyntaxError("Message should not be longer than 9 MiB (got "
                         \o ToString(serialization.length) \o " octets)")
  ELSE NoError

\* validateFileFormatSignature with the two regions swapped: the version is
\* compared before the type.
validateFileFormatSignature_VersionFirst(messageFields, concreteMessageTypeOctet, concreteMessageVersionOctet) ==
  IF messageFields.concreteMessageVersion # concreteMessageVersionOctet
    THEN RAMFSyntaxError(
           "Expected concrete message version "
           \o decimalToHex(concreteMessageVersionOctet) \o " but got "
           \o decimalToHex(messageFields.concreteMessageVersion))
  ELSE IF messageFields.concreteMessageType # concreteMessageTypeOctet
    THEN RAMFSyntaxError(
           "Expected concrete message type "
           \o decimalToHex(concreteMessageTypeOctet) \o " but got "
           \o decimalToHex(messageFields.concreteMessageType))
  ELSE NoError

validateFileFormatSignature(messageFields, concreteMessageTypeOctet, concreteMessageVersionOctet) ==
  IF messageFields.concreteMessageType # concreteMessageTypeOctet
    THEN RAMFSyntaxError(
           "Expected concrete message type "
           \o decimalToHex(concreteMessageTypeOctet) \o " but got "
           \o decimalToHex(messageFields.concreteMessageType))
  ELSE IF messageFields.concreteMessageVersion # concreteMessageVersionOctet
    THEN RAMFSyntaxError(
           "Expected concrete message version "
           \o decimalToHex(concreteMessageVersionOctet) \o " but got "
           \o decimalToHex(messageFields.concreteMessageVersion))
  ELSE NoError

\* validateRecipientAddress with /^[a-z0-9]+$/ for PRIVATE_ADDRESS_REGEX.
validateRecipientAddress_AnyLetter(recipientAddress) ==
  IF IsAbsoluteUrl(recipientAddress) THEN NoError
  ELSE IF \/ recipientAddress = <<>>
          \/ \E i \in 1..Len(recipientAddress) :
               ~(IsAsciiAlpha(recipientAddress[i]) \/ IsAsciiDigit(recipientAddress[i]))
    THEN RAMFValidationError(
           "Recipient address should be a valid node address (got: \""
           \o StringText(recipientAddress) \o "\")")
  ELSE NoError

validateRecipientAddress(recipientAddress) ==
  IF IsAbsoluteUrl(recipientAddress) THEN NoError
  ELSE IF ~MatchesPrivateAddressRegex(recipientAddress)
    THEN RAMFValidationError(
           "Recipient address should be a valid node address (got: \""
           \o StringText(recipientAddress) \o "\")")
  ELSE NoError

validateRecipientAddressLength(recipientAddress) ==
  IF MAX_RECIPIENT_ADDRESS_LENGTH < Len(recipientAddress)
    THEN RAMFSyntaxError(
           "Recipient address should not span more than "
           \o ToString(MAX_RECIPIENT_ADDRESS_LENGTH) \o " characters (got "
           \o ToString(Len(recipientAddress)) \o ")")
  ELSE NoError

validateMessageIdLength(messageId) ==
  IF MAX_ID_LENGTH < Len(messageId)
    THEN RAMFSyntaxError(
           "Id should not span more than " \o ToString(MAX_ID_LENGTH)
           \o " characters (got " \o ToString(Len(messageId)) \o ")")
  ELSE NoError

\* validateTtl with "<=" for "<": a TTL of exactly RAMF_MAX_TTL would be
\* refused.
validateTtl_Exclusive(ttl) ==
  IF LessThan(ttl, NumberOf(0)) THEN RAMFSyntaxError("TTL cannot be negative")
  ELSE IF ~LessThan(ttl, NumberOf(RAMF_MAX_TTL))
    THEN RAMFSyntaxError("TTL must be less than " \o ToString(RAMF_MAX_TTL)
                         \o " (got " \o NumberToString(ttl) \o ")")
  ELSE NoError

\* validateTtl(ttl), for a number as NumberOf and Number give it.
validateTtl(ttl) ==
  IF LessThan(ttl, NumberOf(0)) THEN RAMFSyntaxError("TTL cannot be negative")
  ELSE IF LessThan(NumberOf(RAMF_MAX_TTL), ttl)
    THEN RAMFSyntaxError("TTL must be less than " \o ToString(RAMF_MAX_TTL)
                         \o " (got " \o NumberToString(ttl) \o ")")
  ELSE NoError

validatePayloadLength(payloadBuffer) ==
  IF MAX_PAYLOAD_LENGTH < payloadBuffer.len
    THEN RAMFSyntaxError("Payload size must not exceed 8 MiB (got "
                         \o ToString(payloadBuffer.len) \o " octets)")
  ELSE NoError

\* The first error of a sequence of validation results, NoError if none.
RECURSIVE FirstError(_)
FirstError(errors) ==
  IF errors = <<>> THEN NoError
  ELSE IF Head(errors) # NoError THEN Head(errors)
  ELSE FirstError(Tail(errors))

(***************************************************************************)
(* ramf/serialization.ts: serialize.                                       *)
(***************************************************************************)
\* generateFormatSignature(type, version): 'Relaynet', then the two octets.
generateFormatSignature(concreteMessageTypeOctet, concreteMessageVersionOctet) ==
  FORMAT_SIGNATURE_CONSTANT
    \o <<concreteMessageTypeOctet % 256, concreteMessageVersionOctet % 256>>

\* makeImplicitlyTaggedSequence(VisibleString, VisibleString, date time,
\* Integer, OctetString): the field set, each primitive's value octets.
makeFieldSet(message) ==
  LET recipientAddress == VisibleStringOctets(message.recipientAddress)
      id == VisibleStringOctets(message.id)
      ttl == IntegerOctets(message.ttl)
  IN [wellFormed |-> TRUE,
      byteLength |-> FieldSetDerLength(recipientAddress, id, ttl,
                                       message.payloadSerialized),
      recipientAddress |-> recipientAddress,
      id |-> id,
      date |-> dateToASN1DateTimeInUTC(message.creationDate),
      ttl |-> ttl,
      payload |-> message.payloadSerialized]

\* A plaintext that is not a RAMF field set: an empty SEQUENCE.
NotAFieldSet ==
  [wellFormed |-> FALSE, byteLength |-> DerElementLength(0),
   recipientAddress |-> <<>>, id |-> <<>>,
   date |-> [valid |-> FALSE, seconds |-> 0], ttl |-> <<>>,
   payload |-> [len |-> 0, fill |-> 0]]

\* Lines 83-114 of serialize: format signature || SignedData of the field set.
composeSerialization(message, concreteMessageTypeOctet, concreteMessageVersionOctet) ==
  LET formatSignature == generateFormatSignature(concreteMessageTypeOctet,
                                                 concreteMessageVersionOctet)
      signature == sign(makeFieldSet(message), message.senderCertificate,
                        message.senderCaCertificateChain)
  IN [length |-> Len(formatSignature) + signature.length,
      head |-> formatSignature,
      cms |-> signature]

NoSerialization ==
  [length |-> 0, head |-> <<>>,
   cms |-> [wellFormed |-> FALSE, signatureValid |-> FALSE,
            plaintext |-> NotAFieldSet, signerCertificate |-> "none",
            attachedCertificates |-> <<>>, length |-> 0]]

serializeValidation(message) ==
  FirstError(<<validateRecipientAddressLength(message.recipientAddress),
               validateMessageIdLength(message.id),
               validateTtl(NumberOf(message.ttl)),
               validatePayloadLength(message.payloadSerialized)>>)

\* serialize(message, type, version, senderPrivateKey): the error thrown, or
\* the serialization returned.
serialize(message, concreteMessageTypeOctet, concreteMessageVersionOctet) ==
  LET error == serializeValidation(message)
  IN IF error # NoError
       THEN [error |-> error, serialization |-> NoSerialization]
     ELSE [error |-> NoError,
           serialization |-> composeSerialization(message,
                                                  concreteMessageTypeOctet,
                                                  concreteMessageVersionOctet)]

(***************************************************************************)
(* ramf/serialization.ts: deserialize.                                     *)
(***************************************************************************)
\* parseMessageFormatSignature comparing the octets after the first only.
parseMessageFormatSignature_SkipFirstOctet(head) ==
  IF Len(head) < 10
    THEN [error |-> RAMFSyntaxError(
            "Serialization is too small to contain RAMF format signature")]
  ELSE IF SubSeq(FORMAT_SIGNATURE_CONSTANT, 2, 8) # SubSeq(head, 2, 8)
    THEN [error |-> RAMFSyntaxError(
            "RAMF format signature does not begin with \"Relaynet\"")]
  ELSE [error |-> NoError,
        concreteMessageType |-> head[9],
        concreteMessageVersion |-> head[10]]

\* parseMessageFormatSignature(serialization.slice(0, 10))
parseMessageFormatSignature(head) ==
  IF Len(head) < 10
    THEN [error |-> RAMFSyntaxError(
            "Serialization is too small to contain RAMF format signature")]
  ELSE IF FORMAT_SIGNATURE_CONSTANT # SubSeq(head, 1, 8)
    THEN [error |-> RAMFSyntaxError(
            "RAMF format signature does not begin with \"Relaynet\"")]
  ELSE [error |-> NoError,
        concreteMessageType |-> head[9],
        concreteMessageVersion |-> head[10]]

\* verifySignature without its try/catch: the CMS error propagates as it is.
verifySignature_Unwrapped(cms) == cmsVerifySignature(cms)

\* verifySignature(cmsSignedDataSerialized): CMS errors are wrapped.
verifySignature(cms) ==
  LET result == cmsVerifySignature(cms)
  IN IF result.error # NoError
       THEN [error |-> RAMFValidationErrorWrapping(
                         result.error, "Invalid RAMF message signature")]
     ELSE result

\* getDateFromPrimitiveBlock(block)
getDateFromPrimitiveBlock(block) ==
  IF ~block.valid
    THEN [error |-> RAMFValidationErrorWrapping(
                      [name |-> "Error", message |-> "Date is invalid",
                       cause |-> "none"],
                      "Message date is invalid")]
  ELSE [error |-> NoError, date |-> asn1DateTimeToDate(block)]

\* parseMessageFields(serialization)
parseMessageFields(fieldSet) ==
  IF ~fieldSet.wellFormed
    THEN [error |-> RAMFSyntaxError("Invalid RAMF fields")]
  ELSE
    LET ttlBigInt == getIntegerFromPrimitiveBlock(fieldSet.ttl)
        date == getDateFromPrimitiveBlock(fieldSet.date)
    IN IF date.error # NoError THEN [error |-> date.error]
       ELSE [error |-> NoError,
             date |-> date.date,
             id |-> TextDecode(fieldSet.id),
             payload |-> fieldSet.payload,
             recipientAddress |-> TextDecode(fieldSet.recipientAddress),
             ttl |-> Number(ttlBigInt)]

\* The outcome of a deserialize call that threw: the error and the functions
\* called up to the one that threw.
Thrown(error, steps) == [error |-> error, steps |-> steps]

\* Lines 141-158 of deserialize: decode the verified plaintext, validate the
\* fields in the order of the source and construct the message.
deserializeFields(signatureVerification, steps) ==
  LET messageFields == parseMessageFields(signatureVerification.plaintext)
      s5 == Append(steps, "parseMessageFields")
  IN IF messageFields.error # NoError THEN Thrown(messageFields.error, s5)
     ELSE
       LET e6 == validateRecipientAddressLength(messageFields.recipientAddress)
           s6 == Append(s5, "validateRecipientAddressLength")
           e7 == validateRecipientAddress(messageFields.recipientAddress)
           s7 == Append(s6, "validateRecipientAddress")
           e8 == validateMessageIdLength(messageFields.id)
           s8 == Append(s7, "validateMessageIdLength")
           e9 == validateTtl(messageFields.ttl)
           s9 == Append(s8, "validateTtl")
           e10 == validatePayloadLength(messageFields.payload)
           s10 == Append(s9, "validatePayloadLength")
       IN IF e6 # NoError THEN Thrown(e6, s6)
          ELSE IF e7 # NoError THEN Thrown(e7, s7)
          ELSE IF e8 # NoError THEN Thrown(e8, s8)
          ELSE IF e9 # NoError THEN Thrown(e9, s9)
          ELSE IF e10 # NoError THEN Thrown(e10, s10)
          ELSE [error |-> NoError,
                steps |-> Append(s10, "messageClass"),
                message |->
                  [recipientAddress |-> messageFields.recipientAddress,
                   senderCertificate |-> signatureVerification.signerCertificate,
                   payloadSerialized |-> messageFields.payload,
                   creationDate |-> messageFields.date,
                   id |-> messageFields.id,
                   senderCaCertificateChain |->
                     signatureVerification.attachedCertificates,
                   ttl |-> messageFields.ttl.value]]

\* deserialize(serialization, type, version, messageClass): the error thrown
\* or the message constructed, with the functions called, in order.
deserialize(serialization, concreteMessageTypeOctet, concreteMessageVersionOctet) ==
  LET e1 == validateMessageLength(serialization)
      s1 == <<"validateMessageLength">>
  IN IF e1 # NoError THEN Thrown(e1, s1)
     ELSE
       LET messageFormatSignature ==
             parseMessageFormatSignature(serialization.head)
           s2 == Append(s1, "parseMessageFormatSignature")
       IN IF messageFormatSignature.error # NoError
            THEN Thrown(messageFormatSignature.error, s2)
          ELSE
            LET e3 == validateFileFormatSignature(messageFormatSignature,
                                                  concreteMessageTypeOctet,
                                                  concreteMessageVersionOctet)
                s3 == Append(s2, "validateFileFormatSignature")
            IN IF e3 # NoError THEN Thrown(e3, s3)
               ELSE
                 LET signatureVerification == verifySignature(serialization.cms)
                     s4 == Append(s3, "verifySignature")
                 IN IF signatureVerification.error # NoError
                      THEN Thrown(signatureVerification.error, s4)
                    ELSE deserializeFields(signatureVerification, s4)

(***************************************************************************)
(* keyStores/PrivateKeyStore.ts over the backend of keyStores/testMocks.ts *)
(***************************************************************************)
\* An optional string (peerPrivateAddress?: string).
Undefined == [defined |-> FALSE, value |-> ""]

Defined(s) == [defined |-> TRUE, value |-> s]

\* JavaScript truthiness of an optional string: undefined and '' are falsy.
IsTruthy(optional) == optional.defined /\ optional.value # ""

\* The record the backend holds for no key id (null).
NoKeyData ==
  [stored |-> FALSE, keySerialized |-> "", privateAddress |-> "",
   peerPrivateAddress |-> Undefined]

\* keyId.toString('hex'): two lowercase digits per octet.
RECURSIVE BufferToHex(_)
BufferToHex(buffer) ==
  IF buffer = <<>> THEN ""
  ELSE HexDigit(Head(buffer) \div 16) \o HexDigit(Head(buffer) % 16)
       \o BufferToHex(Tail(buffer))

\* derSerializePrivateKey(privateKey) and derDeserializeECDHPrivateKey(der)
derSerializePrivateKey(privateKey) == "der:" \o privateKey

derDeserializeECDHPrivateKey(keySerialized) ==
  CASE keySerialized = "der:key1" -> "key1"
    [] keySerialized = "der:key2" -> "key2"
    [] OTHER -> "invalid"

KeyStoreError(cause, message) ==
  [name |-> "KeyStoreError", message |-> message \o ": " \o cause.message,
   cause |-> cause.name]

UnknownKeyError(message) ==
  [name |-> "UnknownKeyError", message |-> message, cause |-> "none"]

\* throw new Error('Denied') of the backend.
Denied == [name |-> "Error", message |-> "Denied", cause |-> "none"]

\* MockPrivateKeyStore.retrieveSessionKeyData(keyId)
retrieveSessionKeyData(keys, fetchFails, keyId) ==
  IF fetchFails THEN [error |-> Denied, keyData |-> NoKeyData]
  ELSE IF keyId \in DOMAIN keys THEN [error |-> NoError, keyData |-> keys[keyId]]
  ELSE [error |-> NoError, keyData |-> NoKeyData]

\* retrieveSessionKeyDataOrThrowError without its try/catch: the error of the
\* backend propagates as it is.
retrieveSessionKeyDataOrThrowError_Unwrapped(keys, fetchFails, keyId, privateAddress) ==
  LET keyIdHex == BufferToHex(keyId)
      lookup == retrieveSessionKeyData(keys, fetchFails, keyIdHex)
  IN IF lookup.error # NoError
       THEN [error |-> lookup.error, keyData |-> NoKeyData]
     ELSE IF ~lookup.keyData.stored
       THEN [error |-> UnknownKeyError("Key " \o keyIdHex \o " does not exist"),
             keyData |-> NoKeyData]
     ELSE IF lookup.keyData.privateAddress # privateAddress
       THEN [error |-> UnknownKeyError("Key is owned by a different node"),
             keyData |-> NoKeyData]
     ELSE [error |-> NoError, keyData |-> lookup.keyData]

\* retrieveSessionKeyDataOrThrowError without the comparison of the owner.
retrieveSessionKeyDataOrThrowError_NoOwnerCheck(keys, fetchFails, keyId, privateAddress) ==
  LET keyIdHex == BufferToHex(keyId)
      lookup == retrieveSessionKeyData(keys, fetchFails, keyIdHex)
  IN IF lookup.error # NoError
       THEN [error |-> KeyStoreError(lookup.error, "Failed to retrieve key"),
             keyData |-> NoKeyData]
     ELSE IF ~lookup.keyData.stored
       THEN [error |-> UnknownKeyError("Key " \o keyIdHex \o " does not exist"),
             keyData |-> NoKeyData]
     ELSE [error |-> NoError, keyData |-> lookup.keyData]

\* PrivateKeyStore.retrieveSessionKeyDataOrThrowError(keyId, privateAddress)
retrieveSessionKeyDataOrThrowError(keys, fetchFails, keyId, privateAddress) ==
  LET keyIdHex == BufferToHex(keyId)
      lookup == retrieveSessionKeyData(keys, fetchFails, keyIdHex)
  IN IF lookup.error # NoError
       THEN [error |-> KeyStoreError(lookup.error, "Failed to retrieve key"),
             keyData |-> NoKeyData]
     ELSE IF ~lookup.keyData.stored
       THEN [error |-> UnknownKeyError("Key " \o keyIdHex \o " does not exist"),
             keyData |-> NoKeyData]
     ELSE IF lookup.keyData.privateAddress # privateAddress
       THEN [error |-> UnknownKeyError("Key is owned by a different node"),
             keyData |-> NoKeyData]
     ELSE [error |-> NoError, keyData |-> lookup.keyData]

\* PrivateKeyStore.retrieveUnboundSessionKey(keyId, privateAddress)
retrieveUnboundSessionKey(keys, fetchFails, keyId, privateAddress) ==
  LET found == retrieveSessionKeyDataOrThrowError(keys, fetchFails, keyId,
                                                  privateAddress)
  IN IF found.error # NoError THEN [error |-> found.error, key |-> "none"]
     ELSE IF IsTruthy(found.keyData.peerPrivateAddress)
       THEN [error |-> UnknownKeyError("Key " \o BufferToHex(keyId)
                                       \o " is bound"),
             key |-> "none"]
     ELSE [error |-> NoError,
           key |-> derDeserializeECDHPrivateKey(found.keyData.keySerialized)]

\* PrivateKeyStore.retrieveSessionKey(keyId, privateAddress, peerPrivateAddress)
retrieveSessionKey(keys, fetchFails, keyId, privateAddress, peerPrivateAddress) ==
  LET found == retrieveSessionKeyDataOrThrowError(keys, fetchFails, keyId,
                                                  privateAddress)
      keyIdHex == BufferToHex(keyId)
  IN IF found.error # NoError THEN [error |-> found.error, key |-> "none"]
     ELSE IF /\ IsTruthy(found.keyData.peerPrivateAddress)
             /\ peerPrivateAddress # found.keyData.peerPrivateAddress.value
       THEN [error |-> UnknownKeyError(
                         "Session key " \o keyIdHex
                         \o " is bound to another recipient ("
                         \o found.keyData.peerPrivateAddress.value \o ", not "
                         \o peerPrivateAddress \o ")"),
             key |-> "none"]
     ELSE [error |-> NoError,
           key |-> derDeserializeECDHPrivateKey(found.keyData.keySerialized)]

\* saveSessionKeySerialized that leaves a record already held under the key
\* id as it is.
saveSessionKeySerialized_KeepFirst(keys, saveFails, keyId, keySerialized, privateAddress, peerPrivateAddress) ==
  IF saveFails THEN [error |-> Denied, keys |-> keys]
  ELSE [error |-> NoError,
        keys |-> [k \in DOMAIN keys \cup {keyId} |->
                    IF k \in DOMAIN keys THEN keys[k]
                    ELSE [stored |-> TRUE,
                          keySerialized |-> keySerialized,
                          privateAddress |-> privateAddress,
                          peerPrivateAddress |-> peerPrivateAddress]]]

\* MockPrivateKeyStore.saveSessionKeySerialized: the error thrown and the
\* records held afterwards.
saveSessionKeySerialized(keys, saveFails, keyId, keySerialized, privateAddress, peerPrivateAddress) ==
  IF saveFails THEN [error |-> Denied, keys |-> keys]
  ELSE [error |-> NoError,
        keys |-> [k \in DOMAIN keys \cup {keyId} |->
                    IF k = keyId
                      THEN [stored |-> TRUE,
                            keySerialized |-> keySerialized,
                            privateAddress |-> privateAddress,
                            peerPrivateAddress |-> peerPrivateAddress]
                    ELSE keys[k]]]

\* PrivateKeyStore.saveSessionKey(privateKey, keyId, privateAddress,
\* peerPrivateAddress?)
saveSessionKey(keys, saveFails, privateKey, keyId, privateAddress, peerPrivateAddress) ==
  LET keyIdString == BufferToHex(keyId)
      saved == saveSessionKeySerialized(keys, saveFails, keyIdString,
                                        derSerializePrivateKey(privateKey),
                                        privateAddress, peerPrivateAddress)
  IN IF saved.error # NoError
       THEN [error |-> KeyStoreError(saved.error,
                                     "Failed to save key " \o keyIdString),
             keys |-> saved.keys]
     ELSE saved

\* The key pairs the crypto engine may generate.
RSAKeyPairs ==
  {[privateKey |-> "rsa1.private", publicKey |-> "rsa1.public"],
   [privateKey |-> "rsa2.private", publicKey |-> "rsa2.public"]}

NoKeyPair == [privateKey |-> "none", publicKey |-> "none", privateAddress |-> ""]

\* crypto_wrappers/keyGenerators.ts generateRSAKeyPair({modulus,
\* hashingAlgorithm}): the error thrown, or the pair the engine generated.
generateRSAKeyPair(keyOptions, generated) ==
  IF keyOptions.modulus < 2048
    THEN [error |-> [name |-> "Error",
                     message |-> "RSA modulus must be => 2048 per RS-018 (got "
                                 \o ToString(keyOptions.modulus) \o ")",
                     cause |-> "none"]]
  ELSE IF keyOptions.hashingAlgorithm = "SHA-1"
    THEN [error |-> [name |-> "Error",
                     message |-> "SHA-1 is disallowed by RS-018",
                     cause |-> "none"]]
  ELSE [error |-> NoError, keyPair |-> generated]

\* Hexadecimal SHA-256 digest of a DER-serialized public key.
Sha256Hex(publicKey) ==
  CASE publicKey = "rsa1.public" -> "6b86b273"
    [] publicKey = "rsa2.public" -> "d4735e3a"
    [] OTHER -> "e3b0c442"

\* getPrivateAddressFromIdentityKey(publicKey)
getPrivateAddressFromIdentityKey(publicKey) == "0" \o Sha256Hex(publicKey)

\* MockPrivateKeyStore.retrieveIdentityKey(privateAddress)
retrieveIdentityKey(keys, privateAddress) ==
  IF privateAddress \in DOMAIN keys THEN keys[privateAddress] ELSE "null"

\* MockPrivateKeyStore.saveIdentityKey(privateAddress, privateKey)
saveIdentityKey(keys, saveFails, privateAddress, privateKey) ==
  IF saveFails THEN [error |-> Denied, keys |-> keys]
  ELSE [error |-> NoError,
        keys |-> [a \in DOMAIN keys \cup {privateAddress} |->
                    IF a = privateAddress THEN privateKey ELSE keys[a]]]

\* generateIdentityKeyPair without the call of saveIdentityKey.
generateIdentityKeyPair_NotSaved(keys, saveFails, keyOptions, generated) ==
  LET made == generateRSAKeyPair(keyOptions, generated)
  IN IF made.error # NoError
       THEN [error |-> made.error, keyPair |-> NoKeyPair, keys |-> keys]
     ELSE [error |-> NoError,
           keyPair |-> [privateKey |-> made.keyPair.privateKey,
                        publicKey |-> made.keyPair.publicKey,
                        privateAddress |->
                          getPrivateAddressFromIdentityKey(made.keyPair.publicKey)],
           keys |-> keys]

\* PrivateKeyStore.generateIdentityKeyPair(keyOptions): the error thrown or
\* the identity key pair returned, and the identity keys held afterwards.
generateIdentityKeyPair(keys, saveFails, keyOptions, generated) ==
  LET made == generateRSAKeyPair(keyOptions, generated)
  IN IF made.error # NoError
       THEN [error |-> made.error, keyPair |-> NoKeyPair, keys |-> keys]
     ELSE
       LET privateAddress == getPrivateAddressFromIdentityKey(made.keyPair.publicKey)
           saved == saveIdentityKey(keys, saveFails, privateAddress,
                                    made.keyPair.privateKey)
       IN IF saved.error # NoError
            THEN [error |-> KeyStoreError(saved.error,
                                          "Failed to save key for " \o privateAddress),
                  keyPair |-> NoKeyPair, keys |-> saved.keys]
          ELSE [error |-> NoError,
                keyPair |-> [privateKey |-> made.keyPair.privateKey,
                             publicKey |-> made.keyPair.publicKey,
                             privateAddress |-> privateAddress],
                keys |-> saved.keys]

(***************************************************************************)
(* cms/envelopedData.ts.  A pkijs EnvelopedData is [recipientInfos,        *)
(* unprotectedAttrs, encryptedContent]; a RecipientInfo is [variant, rid]. *)
(* A serialization is [isContentInfo, contentType, contentValid, content]: *)
(* whether the octets are a ContentInfo, its content type, whether its     *)
(* content matches the EnvelopedData schema, and the content.              *)
(***************************************************************************)

CMS_OIDS_ENVELOPED_DATA == "1.2.840.113549.1.7.3"

CMS_OIDS_SIGNED_DATA == "1.2.840.113549.1.7.2"

AES_KEY_SIZES == {128, 192, 256}

\* null where an EnvelopedData is expected, and no serialization at hand.
NoEnvelopedData == [null |-> TRUE]

NoEnvelope == [null |-> TRUE]

\* CMSError(cause, message): the message becomes "<message>: <cause>".
CMSErrorWrapping(cause, message) == [name |-> "CMSError", message |-> message \o ": " \o cause, cause |-> "Error"]

\* Variant of getAesKeySize that takes any size given.
getAesKeySize_Unchecked(aesKeySize) == [error |-> NoError, size |-> IF aesKeySize.defined /\ aesKeySize.value # 0 THEN aesKeySize.value ELSE 128]

\* getAesKeySize(aesKeySize): undefined and 0 are falsy.
getAesKeySize(aesKeySize) ==
  LET truthy == aesKeySize.defined /\ aesKeySize.value # 0
  IN IF truthy /\ aesKeySize.value \notin AES_KEY_SIZES
     THEN [error |-> CMSError("Invalid AES key size (" \o ToString(aesKeySize.value) \o ")"), size |-> 0]
     ELSE [error |-> NoError, size |-> IF truthy THEN aesKeySize.value ELSE 128]

\* SessionlessEnvelopedData.encrypt(plaintext, certificate, options)
SessionlessEnvelopedData_encrypt(plaintext, certificate, options) ==
  LET aesKeySize == getAesKeySize(options.aesKeySize)
      pkijsEnvelopedData ==
        [recipientInfos |-> <<[variant |-> 1, rid |-> certificate]>>,
         unprotectedAttrs |-> <<>>,
         encryptedContent |-> [algorithm |-> "AES-CBC", length |-> aesKeySize.size, plaintext |-> plaintext]]
  IN IF aesKeySize.error # NoError
     THEN [error |-> aesKeySize.error, envelopedData |-> NoEnvelopedData]
     ELSE [error |-> NoError,
           envelopedData |-> [class |-> "SessionlessEnvelopedData", pkijsEnvelopedData |-> pkijsEnvelopedData]]

\* SessionEnvelopedData.encrypt(plaintext, recipientSessionKey, options),
\* with dhKeyId the 64-bit random value generated.
SessionEnvelopedData_encrypt(plaintext, recipientSessionKey, options, dhKeyId) ==
  LET aesKeySize == getAesKeySize(options.aesKeySize)
      pkijsEnvelopedData ==
        [recipientInfos |-> <<[variant |-> 2, rid |-> recipientSessionKey.keyId]>>,
         unprotectedAttrs |-> <<dhKeyId>>,
         encryptedContent |-> [algorithm |-> "AES-CBC", length |-> aesKeySize.size, plaintext |-> plaintext]]
  IN IF aesKeySize.error # NoError
     THEN [error |-> aesKeySize.error, envelopedData |-> NoEnvelopedData]
     ELSE [error |-> NoError,
           envelopedData |-> [class |-> "SessionEnvelopedData", pkijsEnvelopedData |-> pkijsEnvelopedData]]

\* EnvelopedData.serialize(): the ContentInfo wrapping the value.
EnvelopedData_serialize(envelopedData) ==
  [isContentInfo |-> TRUE,
   contentType |-> CMS_OIDS_ENVELOPED_DATA,
   contentValid |-> TRUE,
   content |-> envelopedData.pkijsEnvelopedData]

\* Variant of EnvelopedData.deserialize that looks at the first
\* RecipientInfo without counting them.
EnvelopedData_deserialize_Uncounted(envelopedDataSerialized) == IF ~envelopedDataSerialized.isContentInfo THEN [error |-> CMSErrorWrapping("Object's schema was not verified against input data for ContentInfo", "Could not deserialize CMS ContentInfo"), envelopedData |-> NoEnvelopedData] ELSE IF envelopedDataSerialized.contentType # CMS_OIDS_ENVELOPED_DATA THEN [error |-> CMSError("ContentInfo does not wrap an EnvelopedData value (got OID " \o envelopedDataSerialized.contentType \o ")"), envelopedData |-> NoEnvelopedData] ELSE IF ~envelopedDataSerialized.contentValid THEN [error |-> CMSErrorWrapping("Object's schema was not verified against input data for EnvelopedData", "Invalid EnvelopedData value"), envelopedData |-> NoEnvelopedData] ELSE IF Len(envelopedDataSerialized.content.recipientInfos) = 0 THEN [error |-> CMSError("EnvelopedData must have exactly one RecipientInfo (got 0)"), envelopedData |-> NoEnvelopedData] ELSE IF envelopedDataSerialized.content.recipientInfos[1].variant \notin {1, 2} THEN [error |-> CMSError("Unsupported RecipientInfo (variant: " \o ToString(envelopedDataSerialized.content.recipientInfos[1].variant) \o ")"), envelopedData |-> NoEnvelopedData] ELSE [error |-> NoError, envelopedData |-> [class |-> IF envelopedDataSerialized.content.recipientInfos[1].variant = 1 THEN "SessionlessEnvelopedData" ELSE "SessionEnvelopedData", pkijsEnvelopedData |-> envelopedDataSerialized.content]]

\* EnvelopedData.deserialize(envelopedDataSerialized)
EnvelopedData_deserialize(envelopedDataSerialized) ==
  IF ~envelopedDataSerialized.isContentInfo
  THEN [error |-> CMSErrorWrapping("Object's schema was not verified against input data for ContentInfo", "Could not deserialize CMS ContentInfo"),
        envelopedData |-> NoEnvelopedData]
  ELSE IF envelopedDataSerialized.contentType # CMS_OIDS_ENVELOPED_DATA
  THEN [error |-> CMSError("ContentInfo does not wrap an EnvelopedData value (got OID " \o envelopedDataSerialized.contentType \o ")"),
        envelopedData |-> NoEnvelopedData]
  ELSE IF ~envelopedDataSerialized.contentValid
  THEN [error |-> CMSErrorWrapping("Object's schema was not verified against input data for EnvelopedData", "Invalid EnvelopedData value"),
        envelopedData |-> NoEnvelopedData]
  ELSE LET pkijsEnvelopedData == envelopedDataSerialized.content
           recipientInfosLength == Len(pkijsEnvelopedData.recipientInfos)
           recipientInfo == pkijsEnvelopedData.recipientInfos[1]
       IN IF recipientInfosLength # 1
          THEN [error |-> CMSError("EnvelopedData must have exactly one RecipientInfo (got " \o ToString(recipientInfosLength) \o ")"),
                envelopedData |-> NoEnvelopedData]
          ELSE IF recipientInfo.variant \notin {1, 2}
          THEN [error |-> CMSError("Unsupported RecipientInfo (variant: " \o ToString(recipientInfo.variant) \o ")"),
                envelopedData |-> NoEnvelopedData]
          ELSE [error |-> NoError,
                envelopedData |-> [class |-> IF recipientInfo.variant = 1
                                             THEN "SessionlessEnvelopedData"
                                             ELSE "SessionEnvelopedData",
                                   pkijsEnvelopedData |-> pkijsEnvelopedData]]

(***************************************************************************)
(* Certificate.calculateSubjectPrivateAddress, step by step: the call      *)
(* suspends at await this.getPublicKey() and again at                      *)
(* await getPrivateAddressFromIdentityKey(...).                            *)
(***************************************************************************)

\* null in privateAddressCache and in the result of a call yet to return.
NullAddress == "null"

\* The synchronous start of the call: if (!this.privateAddressCache) goes on
\* to await the public key, otherwise the cache is returned.
startCalculateSubjectPrivateAddress(cache) ==
  IF cache = NullAddress \/ cache = ""
  THEN [pc |-> "getPublicKey", result |-> NullAddress]
  ELSE [pc |-> "returned", result |-> cache]

\* Variant of the end of the call that returns what the cache held when the
\* call started.
finishCalculateSubjectPrivateAddress_Stale(cache, address) == [cache |-> address, result |-> cache]

\* The end of the call, once the address is computed: it is assigned to
\* this.privateAddressCache, which is then returned.
finishCalculateSubjectPrivateAddress(cache, address) ==
  LET assigned == address
  IN [cache |-> assigned, result |-> assigned]

(***************************************************************************)
(* Certificate issuance: Certificate.issue.                                *)
(* A certificate is [startDate, expiryDate, basicConstraints, commonName,  *)
(* issuerCommonName, subjectPublicKey, authorityPublicKey], with dates in  *)
(* milliseconds.                                                           *)
(***************************************************************************)

MAX_PATH_LENGTH_CONSTRAINT == 2

CertificateError(message) == [name |-> "CertificateError", message |-> message, cause |-> "none"]

\* undefined where a date or a number is expected.
NoDate == [defined |-> FALSE, value |-> 0]

NoNumber == [defined |-> FALSE, value |-> 0]

\* null or undefined where a certificate is expected.
NoCertificate == [null |-> TRUE]

\* date-fns setMilliseconds(date, 0)
setMilliseconds0(date) == date - (date % 1000)

\* date-fns min([a, b])
min(a, b) == IF b < a THEN b ELSE a

\* Variant of generatePositiveASN1Integer that uses the random octets as
\* they come.
generatePositiveASN1Integer_Signed(random) == random

\* generatePositiveASN1Integer(), with random the eight octets that
\* generateRandom64BitValue() gave: the octets of the INTEGER.
generatePositiveASN1Integer(random) ==
  LET signedInteger == random
  IN IF 127 < signedInteger[1]
     THEN <<0>> \o signedInteger
     ELSE signedInteger

\* makeBasicConstraintsExtension(cA, pathLenConstraint)
makeBasicConstraintsExtension(cA, pathLenConstraint) ==
  IF pathLenConstraint < 0 \/ MAX_PATH_LENGTH_CONSTRAINT < pathLenConstraint
  THEN [error |-> CertificateError("pathLenConstraint must be between 0 and 2 (got " \o ToString(pathLenConstraint) \o ")"),
        extension |-> [present |-> FALSE, cA |-> FALSE, pathLenConstraint |-> 0]]
  ELSE [error |-> NoError,
        extension |-> [present |-> TRUE, cA |-> cA, pathLenConstraint |-> pathLenConstraint]]

\* validateIssuerCertificate(issuerCertificate): the error thrown, if any.
validateIssuerCertificate(issuerCertificate) ==
  IF ~issuerCertificate.basicConstraints.present
  THEN CertificateError("Basic constraints extension is missing from issuer certificate")
  ELSE IF ~issuerCertificate.basicConstraints.cA
  THEN CertificateError("Issuer is not a CA")
  ELSE NoError

\* The certificate built and signed at the end of Certificate.issue.
IssuedCertificate(options, validityStartDate, validityEndDate, extension) ==
  [startDate |-> validityStartDate,
   expiryDate |-> validityEndDate,
   basicConstraints |-> extension,
   commonName |-> options.commonName,
   issuerCommonName |-> IF options.issuerCertificate # NoCertificate
                        THEN options.issuerCertificate.commonName
                        ELSE options.commonName,
   subjectPublicKey |-> options.subjectPublicKey,
   authorityPublicKey |-> IF options.issuerCertificate # NoCertificate
                          THEN options.issuerCertificate.subjectPublicKey
                          ELSE options.subjectPublicKey]

\* Variant of Certificate.issue that takes the end date as it is given.
issue_NoClamp(options, currentDate) == LET start == setMilliseconds0(IF options.validityStartDate.defined THEN options.validityStartDate.value ELSE currentDate) end == setMilliseconds0(options.validityEndDate) ext == makeBasicConstraintsExtension(options.isCA = TRUE, IF options.pathLenConstraint.defined THEN options.pathLenConstraint.value ELSE 0) IN IF end < start THEN [error |-> CertificateError("The end date must be later than the start date"), certificate |-> NoCertificate] ELSE IF options.issuerCertificate # NoCertificate /\ validateIssuerCertificate(options.issuerCertificate) # NoError THEN [error |-> validateIssuerCertificate(options.issuerCertificate), certificate |-> NoCertificate] ELSE IF ext.error # NoError THEN [error |-> ext.error, certificate |-> NoCertificate] ELSE [error |-> NoError, certificate |-> IssuedCertificate(options, start, end, ext.extension)]

\* Variant of Certificate.issue that validates the issuer before the dates.
issue_IssuerFirst(options, currentDate) == LET start == setMilliseconds0(IF options.validityStartDate.defined THEN options.validityStartDate.value ELSE currentDate) end == setMilliseconds0(IF options.issuerCertificate # NoCertificate THEN min(options.issuerCertificate.expiryDate, options.validityEndDate) ELSE options.validityEndDate) ext == makeBasicConstraintsExtension(options.isCA = TRUE, IF options.pathLenConstraint.defined THEN options.pathLenConstraint.value ELSE 0) IN IF options.issuerCertificate # NoCertificate /\ validateIssuerCertificate(options.issuerCertificate) # NoError THEN [error |-> validateIssuerCertificate(options.issuerCertificate), certificate |-> NoCertificate] ELSE IF end < start THEN [error |-> CertificateError("The end date must be later than the start date"), certificate |-> NoCertificate] ELSE IF ext.error # NoError THEN [error |-> ext.error, certificate |-> NoCertificate] ELSE [error |-> NoError, certificate |-> IssuedCertificate(options, start, end, ext.extension)]

\* Certificate.issue(options), called at currentDate (new Date()).
issue(options, currentDate) ==
  LET validityStartDate ==
        setMilliseconds0(IF options.validityStartDate.defined
                         THEN options.validityStartDate.value
                         ELSE currentDate)
      issuerCertificate == options.issuerCertificate
      validityEndDate ==
        setMilliseconds0(IF issuerCertificate # NoCertificate
                         THEN min(issuerCertificate.expiryDate, options.validityEndDate)
                         ELSE options.validityEndDate)
      issuerError == IF issuerCertificate # NoCertificate
                     THEN validateIssuerCertificate(issuerCertificate)
                     ELSE NoError
      basicConstraints ==
        makeBasicConstraintsExtension(options.isCA = TRUE,
                                      IF options.pathLenConstraint.defined
                                      THEN options.pathLenConstraint.value
                                      ELSE 0)
  IN IF validityEndDate < validityStartDate
     THEN [error |-> CertificateError("The end date must be later than the start date"),
           certificate |-> NoCertificate]
     ELSE IF issuerError # NoError
     THEN [error |-> issuerError, certificate |-> NoCertificate]
     ELSE IF basicConstraints.error # NoError
     THEN [error |-> basicConstraints.error, certificate |-> NoCertificate]
     ELSE [error |-> NoError,
           certificate |-> IssuedCertificate(options, validityStartDate, validityEndDate,
                                             basicConstraints.extension)]

(***************************************************************************)
(* Public key store: PublicKeyStore over MockPublicKeyStore.               *)
(* A session key is [keyId, publicKey]; the record kept for a peer is      *)
(* [publicKeyId, publicKeyDer, publicKeyCreationTime].                     *)
(***************************************************************************)

\* derSerializePublicKey(publicKey) and derDeserializeECDHPublicKey(der)
derSerializePublicKey(publicKey) == "der:" \o publicKey

derDeserializeECDHPublicKey(publicKeyDer) ==
  CASE publicKeyDer = "der:pub1" -> "pub1"
    [] publicKeyDer = "der:pub2" -> "pub2"
    [] OTHER -> "invalid"

\* null where the data of a session key is expected, and where a key is.
NoPublicKeyData == [null |-> TRUE]

NoSessionKey == [null |-> TRUE]

\* MockPublicKeyStore.registerSessionKey: writes the record as it is.
registerSessionKey(keys, keyData, peerPrivateAddress) == [a \in (DOMAIN keys) \cup {peerPrivateAddress} |-> IF a = peerPrivateAddress THEN keyData ELSE keys[a]]

\* Variant of retrieveSessionKeyData that finds no record.
peerRetrieveSessionKeyData_Missing(keys, fetchError, peerPrivateAddress) == IF fetchError THEN [error |-> Denied, keyData |-> NoPublicKeyData] ELSE [error |-> NoError, keyData |-> NoPublicKeyData]

\* MockPublicKeyStore.retrieveSessionKeyData(peerPrivateAddress)
peerRetrieveSessionKeyData(keys, fetchError, peerPrivateAddress) ==
  IF fetchError THEN [error |-> Denied, keyData |-> NoPublicKeyData]
  ELSE IF peerPrivateAddress \in DOMAIN keys
       THEN [error |-> NoError, keyData |-> keys[peerPrivateAddress]]
       ELSE [error |-> NoError, keyData |-> NoPublicKeyData]

\* MockPublicKeyStore.saveSessionKeyData(keyData, peerPrivateAddress)
peerSaveSessionKeyData(keys, saveFails, keyData, peerPrivateAddress) ==
  IF saveFails THEN [error |-> Denied, keys |-> keys]
  ELSE [error |-> NoError, keys |-> registerSessionKey(keys, keyData, peerPrivateAddress)]

\* The KeyStoreError of the public key store: it wraps the cause and keeps
\* its message.
PublicKeyStoreError(cause) == [name |-> "KeyStoreError", message |-> cause.message, cause |-> cause.name]

\* PublicKeyStore.saveSessionKey(key, peerPrivateAddress, creationTime):
\* nothing is stored when the key held for the peer was created later.  For
\* a key created at the very time of the one held, keepOnTie says which of
\* the two stays.
PublicKeyStore_saveSessionKey(keys, saveFails, fetchError, key, peerPrivateAddress, creationTime, keepOnTie) ==
  LET prior == peerRetrieveSessionKeyData(keys, fetchError, peerPrivateAddress)
      keyData == [publicKeyId |-> key.keyId,
                  publicKeyDer |-> derSerializePublicKey(key.publicKey),
                  publicKeyCreationTime |-> creationTime]
      saved == peerSaveSessionKeyData(keys, saveFails, keyData, peerPrivateAddress)
  IN IF prior.error # NoError
     THEN [error |-> PublicKeyStoreError(prior.error), keys |-> keys]
     ELSE IF /\ prior.keyData # NoPublicKeyData
             /\ \/ creationTime < prior.keyData.publicKeyCreationTime
                \/ (creationTime = prior.keyData.publicKeyCreationTime /\ keepOnTie)
     THEN [error |-> NoError, keys |-> keys]
     ELSE IF saved.error # NoError
     THEN [error |-> PublicKeyStoreError(saved.error), keys |-> keys]
     ELSE [error |-> NoError, keys |-> saved.keys]

\* PublicKeyStore.retrieveLastSessionKey(peerPrivateAddress): the key held
\* for the peer, or null.
PublicKeyStore_retrieveLastSessionKey(keys, fetchError, peerPrivateAddress) ==
  LET data == peerRetrieveSessionKeyData(keys, fetchError, peerPrivateAddress)
  IN IF data.error # NoError
     THEN [error |-> PublicKeyStoreError(data.error), key |-> NoSessionKey]
     ELSE IF data.keyData = NoPublicKeyData
     THEN [error |-> NoError, key |-> NoSessionKey]
     ELSE [error |-> NoError,
           key |-> [keyId |-> data.keyData.publicKeyId,
                    publicKey |-> derDeserializeECDHPublicKey(data.keyData.publicKeyDer)]]

(***************************************************************************)
(* Certificate store: CertificateStore over MockCertificateStore.          *)
(* Dates are milliseconds since the epoch.  A certificate is               *)
(* [subjectPublicKey, expiryDate]; X.509 dates carry whole seconds.        *)
(***************************************************************************)

\* Certificate.calculateSubjectPrivateAddress: the private address of the
\* certificate's subject key.
calculateSubjectPrivateAddress(certificate) == getPrivateAddressFromIdentityKey(certificate.subjectPublicKey)

\* CertificationPath.serialize: the DER of the path, here the leaf with its
\* expiry in whole seconds, followed by the authorities.
CertificationPath_serialize(path) == <<[path.leafCertificate EXCEPT !.expiryDate = @ \div 1000]>> \o path.certificateAuthorities

\* CertificationPath.deserialize: the path a serialization stands for.
CertificationPath_deserialize(serialization) == [leafCertificate |-> [serialization[1] EXCEPT !.expiryDate = @ * 1000], certificateAuthorities |-> Tail(serialization)]

\* null where a serialization is expected, and where a path is.
NullSerialization == <<>>

NullPath == [null |-> TRUE]

\* this.dataByPrivateAddress[subjectPrivateAddress] ?? [].
CertificateDataOf(data, subjectPrivateAddress) == IF subjectPrivateAddress \in DOMAIN data THEN data[subjectPrivateAddress] ELSE <<>>

\* Variant of saveData that keeps only the record being saved.
saveData_Overwrite(data, serialization, subjectPrivateAddress, subjectCertificateExpiryDate, issuerPrivateAddress) == [a \in (DOMAIN data) \cup {subjectPrivateAddress} |-> IF a = subjectPrivateAddress THEN <<[serialization |-> serialization, expiryDate |-> subjectCertificateExpiryDate, issuerPrivateAddress |-> issuerPrivateAddress]>> ELSE data[a]]

\* MockCertificateStore.saveData: appends the record to the subject's list.
saveData(data, serialization, subjectPrivateAddress, subjectCertificateExpiryDate, issuerPrivateAddress) ==
  LET mockData == [serialization |-> serialization,
                   expiryDate |-> subjectCertificateExpiryDate,
                   issuerPrivateAddress |-> issuerPrivateAddress]
      originalCertificateData == CertificateDataOf(data, subjectPrivateAddress)
  IN [a \in (DOMAIN data) \cup {subjectPrivateAddress} |->
        IF a = subjectPrivateAddress
        THEN Append(originalCertificateData, mockData)
        ELSE data[a]]

\* MockCertificateStore.forceSave: saveData without any check of the expiry.
forceSave(data, path, issuerPrivateAddress) == saveData(data, CertificationPath_serialize(path), calculateSubjectPrivateAddress(path.leafCertificate), path.leafCertificate.expiryDate, issuerPrivateAddress)

\* Array.prototype.filter with (d) => d.issuerPrivateAddress === issuer.
FilterByIssuer(certificateData, issuerPrivateAddress) == SelectSeq(certificateData, LAMBDA d : d.issuerPrivateAddress = issuerPrivateAddress)

\* Array.prototype.map with (d) => d.serialization.
MapSerialization(certificateData) == [i \in 1..Len(certificateData) |-> certificateData[i].serialization]

\* Variant of retrieveAllSerializations that does not filter by issuer.
retrieveAllSerializations_AnyIssuer(data, subjectPrivateAddress, issuerPrivateAddress) == MapSerialization(CertificateDataOf(data, subjectPrivateAddress))

\* MockCertificateStore.retrieveAllSerializations.
retrieveAllSerializations(data, subjectPrivateAddress, issuerPrivateAddress) ==
  LET certificateData == CertificateDataOf(data, subjectPrivateAddress)
      matchingCertificateData == FilterByIssuer(certificateData, issuerPrivateAddress)
  IN IF Len(matchingCertificateData) = 0
     THEN <<>>
     ELSE MapSerialization(matchingCertificateData)

\* One step of the stable sort with the comparator
\* (a, b) => b.expiryDate.getTime() - a.expiryDate.getTime(): the record goes
\* behind every record that does not expire before it.
RECURSIVE InsertByExpiryDescending(_, _)
InsertByExpiryDescending(sorted, d) ==
  IF sorted = <<>> THEN <<d>>
  ELSE IF Head(sorted).expiryDate - d.expiryDate < 0
       THEN <<d>> \o sorted
       ELSE <<Head(sorted)>> \o InsertByExpiryDescending(Tail(sorted), d)

\* Array.prototype.sort (stable) with that comparator.
RECURSIVE SortByExpiryDescending(_)
SortByExpiryDescending(certificateData) ==
  IF certificateData = <<>> THEN <<>>
  ELSE InsertByExpiryDescending(SortByExpiryDescending(SubSeq(certificateData, 1, Len(certificateData) - 1)), certificateData[Len(certificateData)])

\* Variant of retrieveLatestSerialization that takes the last record of the
\* sorted list, the one that expires first.
retrieveLatestSerialization_Earliest(data, subjectPrivateAddress, issuerPrivateAddress) == LET sorted == SortByExpiryDescending(FilterByIssuer(CertificateDataOf(data, subjectPrivateAddress), issuerPrivateAddress)) IN IF Len(sorted) = 0 THEN NullSerialization ELSE sorted[Len(sorted)].serialization

\* MockCertificateStore.retrieveLatestSerialization: null or the
\* serialization of the matching record that expires last.
retrieveLatestSerialization(data, subjectPrivateAddress, issuerPrivateAddress) ==
  LET certificateData == CertificateDataOf(data, subjectPrivateAddress)
      matchingCertificateData == FilterByIssuer(certificateData, issuerPrivateAddress)
      dataSorted == SortByExpiryDescending(matchingCertificateData)
  IN IF Len(matchingCertificateData) = 0
     THEN NullSerialization
     ELSE dataSorted[1].serialization

\* Variant of CertificateStore.save that stores nothing when the backend
\* holds a record of the subject under the issuer already.
CertificateStore_save_IfAbsent(data, currentDate, path, issuerPrivateAddress) ==
  IF path.leafCertificate.expiryDate <= currentDate
  THEN data
  ELSE IF retrieveLatestSerialization(data, calculateSubjectPrivateAddress(path.leafCertificate), issuerPrivateAddress) # NullSerialization
  THEN data
  ELSE saveData(data, CertificationPath_serialize(path),
                calculateSubjectPrivateAddress(path.leafCertificate),
                path.leafCertificate.expiryDate, issuerPrivateAddress)

\* CertificateStore.save: stores the path unless its leaf has expired.
CertificateStore_save(data, currentDate, path, issuerPrivateAddress) ==
  IF path.leafCertificate.expiryDate <= currentDate
  THEN data
  ELSE saveData(data, CertificationPath_serialize(path),
                calculateSubjectPrivateAddress(path.leafCertificate),
                path.leafCertificate.expiryDate, issuerPrivateAddress)

\* CertificateStore.retrieveLatest: the latest path of the backend, or null
\* when there is none or it has expired.
CertificateStore_retrieveLatest(data, currentDate, subjectPrivateAddress, issuerPrivateAddress) ==
  LET serialization == retrieveLatestSerialization(data, subjectPrivateAddress, issuerPrivateAddress)
  IN IF serialization = NullSerialization
     THEN NullPath
     ELSE LET path == CertificationPath_deserialize(serialization)
          IN IF path.leafCertificate.expiryDate <= currentDate THEN NullPath ELSE path

\* CertificateStore.retrieveAll: the backend's paths that have not expired.
CertificateStore_retrieveAll(data, currentDate, subjectPrivateAddress, issuerPrivateAddress) ==
  LET allSerializations == retrieveAllSerializations(data, subjectPrivateAddress, issuerPrivateAddress)
      allPaths == [i \in 1..Len(allSerializations) |-> CertificationPath_deserialize(allSerializations[i])]
  IN SelectSeq(allPaths, LAMBDA p : ~(p.leafCertificate.expiryDate <= currentDate))


(***************************************************************************)
(* nodes/channels/GatewayChannel.ts: generateCargoes.                      *)
(* A Date is held as its whole seconds and its milliseconds within the     *)
(* second, since the milliseconds of 180 days exceed the integers of TLC;  *)
(* getTime() is date.seconds * 1000 + date.milliseconds.                   *)
(***************************************************************************)
CLOCK_DRIFT_TOLERANCE_HOURS == 3

DateOf(seconds, milliseconds) == [seconds |-> seconds, milliseconds |-> milliseconds]

\* date.getTime(), for the dates whose milliseconds TLC can count.
getTime(date) == date.seconds * 1000 + date.milliseconds

\* The time zone of the process: the offset of its local time from UTC, in
\* seconds, before the instant `transition` and from it on.
TimeZoneOf(before, after, transition) == [before |-> before, after |-> after, transition |-> transition]

\* LocalTime(t): the local time of an instant, in seconds.
LocalTime(zone, t) == t + (IF t < zone.transition THEN zone.before ELSE zone.after)

\* UTC(t): the instant of a local time. A local time that the change of
\* offset repeats or skips is read with the offset before the change.
UTC(zone, t) ==
  IF t - zone.before < zone.transition THEN t - zone.before
  ELSE IF t - zone.after >= zone.transition THEN t - zone.after
  ELSE t - zone.before

\* date.setMilliseconds(0) and date.setHours(hours), with hours counted from
\* the start of the local day of the date: both set the fields of the local
\* time of the date and read the instant of the local time they make.
setMilliseconds(zone, date, ms) == DateOf(UTC(zone, LocalTime(zone, date.seconds)), ms)

setHours(zone, date, hours) ==
  LET local == LocalTime(zone, date.seconds)
  IN DateOf(UTC(zone, local - (local % 86400) + hours * 3600 + (local % 3600)), date.milliseconds)

\* date.getHours(): the hour of the local time of the date.
getHours(zone, date) == (LocalTime(zone, date.seconds) % 86400) \div 3600

\* getCargoCreationTime(), with currentDate the value of new Date(), in the
\* time zone of the process.
getCargoCreationTime(currentDate, zone) ==
  LET creationDate == setMilliseconds(zone, currentDate, 0)
  IN setHours(zone, creationDate, getHours(zone, creationDate) - CLOCK_DRIFT_TOLERANCE_HOURS)

\* getSecondsBetweenDates(date, expiryDate):
\* Math.floor((expiryDate.getTime() - date.getTime()) / 1_000).
getSecondsBetweenDates(date, expiryDate) ==
  (expiryDate.seconds - date.seconds) + ((expiryDate.milliseconds - date.milliseconds) \div 1000)

\* encryptPayload(messageSerialized): the ciphertext that wrapMessagePayload
\* gives, as long as the plaintext.
encryptPayload(payloadPlaintext) == [len |-> payloadPlaintext.len, fill |-> 255 - payloadPlaintext.fill]

\* The type and version octets of a cargo.
CARGO_TYPE_OCTET == 67

CARGO_VERSION_OCTET == 0

\* Lines 19 and 20 of generateCargoes: the creation date and the TTL of the
\* cargo of a batch, from the clock read when the batch is taken.
cargoOptions(batch, currentDate, zone) ==
  LET creationDate == getCargoCreationTime(currentDate, zone)
  IN [creationDate |-> creationDate,
      ttl |-> getSecondsBetweenDates(creationDate, batch.expiryDate)]

\* new Cargo(...) of generateCargoes, once encryptPayload has given the
\* payload, with id the identifier that the constructor draws.
buildCargo(recipientAddress, nodeDeliveryAuth, id, payload, options) ==
  [recipientAddress |-> recipientAddress,
   id |-> id,
   creationDate |-> getTime(options.creationDate),
   ttl |-> min(options.ttl, RAMF_MAX_TTL),
   payloadSerialized |-> payload,
   senderCertificate |-> nodeDeliveryAuth,
   senderCaCertificateChain |-> <<>>]

\* cargo.serialize(): the serialization of the cargo, or the error thrown.
serializeCargo(cargo) ==
  LET cargoSerialized == serialize(cargo, CARGO_TYPE_OCTET, CARGO_VERSION_OCTET)
  IN [error |-> cargoSerialized.error, cargo |-> cargo,
      serialization |-> cargoSerialized.serialization]


(***************************************************************************)
(* nodes/channels/PrivateGatewayChannel.ts: getOrCreateCDAIssuer.          *)
(* The milliseconds of 180 days exceed the integers of TLC: the calendar   *)
(* is scaled down, a minute counting MinuteLength milliseconds and a day   *)
(* 1440 minutes, which keeps the proportions of the 90 minutes, the 90     *)
(* days and the 180 days of the code, and the truncation of the dates of   *)
(* a certificate to whole seconds.                                         *)
(***************************************************************************)
MinuteLength == 60

DayLength == 1440 * MinuteLength

\* date-fns addDays(date, amount) and subMinutes(date, amount)
addDays(date, amount) == date + amount * DayLength

subMinutes(date, amount) == date - amount * MinuteLength

\* getRSAPublicKeyFromPrivate(privateKey)
getRSAPublicKeyFromPrivate(privateKey) ==
  CASE privateKey = "rsa1.private" -> "rsa1.public"
    [] privateKey = "rsa2.private" -> "rsa2.public"
    [] OTHER -> "none"

\* issueGatewayCertificate(options): a certificate of a certificate
\* authority named after the subject's private address, issued by
\* Certificate.issue, which draws its serial number (line 80).
issueGatewayCertificate(options, currentDate, random) ==
  LET issued == issue([commonName |-> getPrivateAddressFromIdentityKey(options.subjectPublicKey),
                       validityStartDate |-> [defined |-> TRUE, value |-> options.validityStartDate],
                       validityEndDate |-> options.validityEndDate,
                       isCA |-> TRUE,
                       pathLenConstraint |-> [defined |-> TRUE, value |-> 2],
                       subjectPublicKey |-> options.subjectPublicKey,
                       issuerCertificate |-> NoCertificate],
                      currentDate).certificate
  IN [startDate |-> issued.startDate,
      expiryDate |-> issued.expiryDate,
      basicConstraints |-> issued.basicConstraints,
      commonName |-> issued.commonName,
      issuerCommonName |-> issued.issuerCommonName,
      subjectPublicKey |-> issued.subjectPublicKey,
      authorityPublicKey |-> issued.authorityPublicKey,
      serialNumber |-> generatePositiveASN1Integer(random)]

\* new CertificationPath(leafCertificate, certificateAuthorities)
CertificationPath(leafCertificate, certificateAuthorities) == [leafCertificate |-> leafCertificate, certificateAuthorities |-> certificateAuthorities]

\* Lines 26-31 of getOrCreateCDAIssuer returning the stored issuer
\* whenever there is one.
selectCDAIssuer_AnyStored(date, existingIssuerPath) == IF existingIssuerPath # NullPath THEN existingIssuerPath.leafCertificate ELSE NoCertificate

\* Lines 26-31 of getOrCreateCDAIssuer: the stored issuer to return, or
\* null when one is to be issued; date is the now of line 17.
selectCDAIssuer(date, existingIssuerPath) ==
  IF existingIssuerPath # NullPath
  THEN LET minExpiryDate == addDays(date, 90)
       IN IF minExpiryDate <= existingIssuerPath.leafCertificate.expiryDate
          THEN existingIssuerPath.leafCertificate
          ELSE NoCertificate
  ELSE NoCertificate

\* Lines 33-38 of getOrCreateCDAIssuer: the issuer issued.
issueCDAIssuer(date, nodePrivateKey, currentDate, random) ==
  issueGatewayCertificate([issuerPrivateKey |-> nodePrivateKey,
                           subjectPublicKey |-> getRSAPublicKeyFromPrivate(nodePrivateKey),
                           validityEndDate |-> addDays(date, 180),
                           validityStartDate |-> subMinutes(date, 90)],
                          currentDate, random)


(***************************************************************************)
(* State.                                                                  *)
(***************************************************************************)
VARIABLES
  pc,           \* codec: "idle", "wire" (bytes in flight) or "done"
  ser,          \* codec: the serialize call made, with its outcome
  wire,         \* codec: the serialization in flight
  tampers,      \* codec: alterations applied to the bytes in flight
  de,           \* codec: the deserialize call made, with its outcome
  sessionKeys,  \* key store: MockPrivateKeyStore.sessionKeys
  failOnSave,   \* key store: MockPrivateKeyStore.failOnSave
  failOnFetch,  \* key store: MockPrivateKeyStore.failOnFetch
  ks,           \* key store: the last call made, with its outcome
  identityKeys, \* key store: MockPrivateKeyStore.identityKeys
  keyUses,      \* key store: per key id, the saves and the retrievals that
                \* returned the key so far ("never", "once" or "more")
  dataByPrivateAddress, \* certificate store: MockCertificateStore's records
  now,          \* certificate store: the clock (new Date()), milliseconds
  cs,           \* certificate store: the last call made, with its outcome
  peerSessionKeys,  \* public key store: MockPublicKeyStore.sessionKeys
  peerFailOnSave,   \* public key store: the backend refuses to save
  peerFetchError,   \* public key store: the backend refuses to read
  pks,          \* public key store: the last call made, with its outcome
  latestSeen,   \* public key store: per peer, the latest creation time of
                \* the session keys given to the store so far
  caCertificate,    \* issuance: the certificate at hand to issue under
  ic,           \* issuance: the last call of Certificate.issue, with its
                \* outcome
  privateAddressCache,  \* address cache: per certificate object, Certificate.privateAddressCache
  calls, \* address cache: the calls of calculateSubjectPrivateAddress, each with its position
  envelope,  \* enveloped data: the serialization at hand, made here or received
  ed, \* enveloped data: the last call made, with its outcome
  sn, \* serial numbers: the last call of generatePositiveASN1Integer, with its outcome
  clock,  \* cargo generation: the gateway's clock, a date in seconds and milliseconds
  timeZone,  \* the time zone of the gateway's process: the offsets of its local time and the instant at which they change
  batches,  \* the batches that the message stream has still to give, in order
  gen, \* the generator of generateCargoes: its status, the cargoes it yielded, its error
  tp, \* TTL parsing: the last deserialize call on a message whose TTL octets come from a peer
  cdaCalls,  \* CDA issuers: the call of getOrCreateCDAIssuer that each caller has made last, with the point it has reached
  cdaHistory  \* the calls of getOrCreateCDAIssuer that have returned, in the order of their return

vars == <<pc, ser, wire, tampers, de, sessionKeys, failOnSave, failOnFetch, ks, identityKeys, keyUses, dataByPrivateAddress, now, cs, peerSessionKeys, peerFailOnSave, peerFetchError, pks, latestSeen, caCertificate, ic, privateAddressCache, calls, envelope, ed, sn, clock, batches, gen, tp, cdaCalls, cdaHistory, timeZone>>

codecVars == <<pc, ser, wire, tampers, de>>

keyStoreVars == <<sessionKeys, failOnSave, failOnFetch, ks, identityKeys, keyUses>>

certStoreVars == <<dataByPrivateAddress, now, cs>>

publicKeyStoreVars == <<peerSessionKeys, peerFailOnSave, peerFetchError, pks, latestSeen>>

issuanceVars == <<caCertificate, ic>>

addressCacheVars == <<privateAddressCache, calls>>

envelopedVars == <<envelope, ed>>

serialVars == <<sn>>

cargoVars == <<clock, timeZone, batches, gen>>

ttlVars == <<tp>>

cdaVars == <<cdaCalls, cdaHistory>>

\* What the actions of one component leave alone.
notCodecVars == <<keyStoreVars, certStoreVars, publicKeyStoreVars, issuanceVars, addressCacheVars, envelopedVars, serialVars, cargoVars, ttlVars, cdaVars>>

notKeyStoreVars == <<codecVars, certStoreVars, publicKeyStoreVars, issuanceVars, addressCacheVars, envelopedVars, serialVars, cargoVars, ttlVars, cdaVars>>

notCertStoreVars == <<codecVars, keyStoreVars, publicKeyStoreVars, issuanceVars, addressCacheVars, envelopedVars, serialVars, cargoVars, ttlVars, cdaVars>>

notPublicKeyStoreVars == <<codecVars, keyStoreVars, certStoreVars, issuanceVars, addressCacheVars, envelopedVars, serialVars, cargoVars, ttlVars, cdaVars>>

notIssuanceVars == <<codecVars, keyStoreVars, certStoreVars, publicKeyStoreVars, addressCacheVars, envelopedVars, serialVars, cargoVars, ttlVars, cdaVars>>

notAddressCacheVars == <<codecVars, keyStoreVars, certStoreVars, publicKeyStoreVars, issuanceVars, envelopedVars, serialVars, cargoVars, ttlVars, cdaVars>>

notEnvelopedVars == <<codecVars, keyStoreVars, certStoreVars, publicKeyStoreVars, issuanceVars, addressCacheVars, serialVars, cargoVars, ttlVars, cdaVars>>

notSerialVars == <<codecVars, keyStoreVars, certStoreVars, publicKeyStoreVars, issuanceVars, addressCacheVars, envelopedVars, cargoVars, ttlVars, cdaVars>>

notCargoVars == <<codecVars, keyStoreVars, certStoreVars, publicKeyStoreVars, issuanceVars, addressCacheVars, envelopedVars, serialVars, ttlVars, cdaVars>>

notTtlVars == <<codecVars, keyStoreVars, certStoreVars, publicKeyStoreVars, issuanceVars, addressCacheVars, envelopedVars, serialVars, cargoVars, cdaVars>>

notCdaVars == <<codecVars, keyStoreVars, certStoreVars, publicKeyStoreVars, issuanceVars, addressCacheVars, envelopedVars, serialVars, cargoVars, ttlVars>>

(***************************************************************************)
(* Inputs of the codec.                                                    *)
(***************************************************************************)
StringsUpTo(n) == UNION {[1..k -> Alphabet] : k \in 0..n}

\* "a:" and "a:\u00e9" (absolute URLs), and the hexadecimal strings "0aa..."
\* of 1024 and 1025 characters.
RecipientAddresses ==
  StringsUpTo(MaxAddrLen)
    \cup {<<97, 58>>, <<97, 58, 233>>,
          <<48>> \o Rep(97, MAX_RECIPIENT_ADDRESS_LENGTH - 1),
          <<48>> \o Rep(97, MAX_RECIPIENT_ADDRESS_LENGTH)}

MessageIds == {<<233>>, Rep(97, MAX_ID_LENGTH), Rep(97, MAX_ID_LENGTH + 1)}

\* Milliseconds since the epoch.
CreationDates == {1500, 2000}

Ttls == {-1, 0, RAMF_MAX_TTL, RAMF_MAX_TTL + 1}

CertificateChains == {<<>>, <<"hugeCa">>}

\* A message with the recipient address "a:", a one-character id, the TTL 0
\* and the CA certificate attached, for a payload of n octets.
MessageWithPayloadOf(n) ==
  [recipientAddress |-> <<97, 58>>, id |-> <<233>>, creationDate |-> 1500,
   ttl |-> 0, payloadSerialized |-> [len |-> n, fill |-> 171],
   senderCertificate |-> "sender", senderCaCertificateChain |-> <<"hugeCa">>]

\* The payload length with which the serialization of that message is 9 MiB
\* to the octet: the largest payload less what its serialization has over
\* the limit.
ExactLimitPayloadLength ==
  MAX_PAYLOAD_LENGTH
    - (composeSerialization(MessageWithPayloadOf(MAX_PAYLOAD_LENGTH), 0, 0).length
       - MAX_RAMF_MESSAGE_LENGTH)

Payloads ==
  {[len |-> n, fill |-> 171] : n \in {32, ExactLimitPayloadLength, MAX_PAYLOAD_LENGTH, MAX_PAYLOAD_LENGTH + 1}}

Messages ==
  [recipientAddress : RecipientAddresses,
   id : MessageIds,
   creationDate : CreationDates,
   ttl : Ttls,
   payloadSerialized : Payloads,
   senderCertificate : {"sender"},
   senderCaCertificateChain : CertificateChains]

\* Concrete message type and version octets given to serialize, and those
\* expected by deserialize (0x50 is the parcel's type octet).
SerializeTypes == {80, 81}

SerializeVersions == {0}

ExpectedTypes == {81}

ExpectedVersions == {0, 1}

NoMessage ==
  [recipientAddress |-> <<>>, id |-> <<>>, creationDate |-> 0, ttl |-> 0,
   payloadSerialized |-> [len |-> 0, fill |-> 0], senderCertificate |-> "sender",
   senderCaCertificateChain |-> <<>>]

NoSerializeCall ==
  [called |-> FALSE, message |-> NoMessage, type |-> 0, version |-> 0,
   result |-> [error |-> NoError, serialization |-> NoSerialization]]

NoDeserializeCall ==
  [called |-> FALSE, input |-> NoSerialization, type |-> 0, version |-> 0,
   result |-> [error |-> NoError, steps |-> <<>>]]

(***************************************************************************)
(* The serialization parameter of deserialize is any ArrayBuffer.  A       *)
(* buffer is held as its byteLength, its first min(10, byteLength) octets  *)
(* (what serialization.slice(0, 10) is) and what the octets from offset 10 *)
(* on (serialization.slice(10)) are to cmsSignedData.verifySignature.      *)
(* The alterations below are operations on the octets of a buffer; each    *)
(* gives the three parts of the buffer that results.                       *)
(***************************************************************************)
TamperKinds ==
  {"empty", "truncate", "magic", "padToLimit", "padOverLimit", "badSignature",
   "malformedCms"}

\* Octets that hold no SignedData: none at all, or zero octets only.
NotSignedData == NoSerialization.cms

\* Every buffer has as many leading octets on record as slice(0, 10) gives.
WireConsistent(w) ==
  /\ Len(w.head) = (IF w.length < 10 THEN w.length ELSE 10)
  /\ w.length <= 10 => ~w.cms.wellFormed

CanAlter(kind, w) ==
  CASE kind = "empty" -> w.length > 0
    [] kind = "truncate" -> w.length > 9
    [] kind = "magic" -> w.length > 0 /\ w.head[1] = 82
    [] kind = "padToLimit" -> w.length < MAX_RAMF_MESSAGE_LENGTH
    [] kind = "padOverLimit" -> w.length <= MAX_RAMF_MESSAGE_LENGTH
    [] kind = "badSignature" -> w.cms.wellFormed /\ w.cms.signatureValid
    [] kind = "malformedCms" -> w.length > 10 /\ w.cms.wellFormed

\* Buffer.concat([w, Buffer.alloc(length - w.byteLength)]): zero octets
\* appended.  A buffer of fewer than 10 octets gets its octets up to the
\* tenth from the padding, and what follows them is padding only; after a
\* SignedData the padding is trailing octets, which the DER parser leaves
\* unread.
Padded(w, length) ==
  [length |-> length,
   head |-> w.head \o Rep(0, 10 - Len(w.head)),
   cms |-> IF w.length > 10 THEN w.cms ELSE NotSignedData]

Alter(kind, w) ==
  CASE kind = "empty" ->
         \* w.slice(0, 0)
         [length |-> 0, head |-> <<>>, cms |-> NotSignedData]
    [] kind = "truncate" ->
         \* w.slice(0, 9)
         [length |-> 9, head |-> SubSeq(w.head, 1, 9), cms |-> NotSignedData]
    [] kind = "magic" ->
         \* w[0] = 0x72: 'relaynet' instead of 'Relaynet'
         [w EXCEPT !.head[1] = 114]
    [] kind = "padToLimit" -> Padded(w, MAX_RAMF_MESSAGE_LENGTH)
    [] kind = "padOverLimit" -> Padded(w, MAX_RAMF_MESSAGE_LENGTH + 1)
    [] kind = "badSignature" ->
         \* a bit of the signature value in the SignerInfo inverted
         [w EXCEPT !.cms.signatureValid = FALSE]
    [] kind = "malformedCms" ->
         \* w[10] = 0: the tag of the ContentInfo SEQUENCE overwritten
         [w EXCEPT !.cms.wellFormed = FALSE]

(***************************************************************************)
(* Actions of the codec.                                                   *)
(***************************************************************************)
InitKeyStoreIdle ==
  /\ sessionKeys = <<>>
  /\ failOnSave = FALSE
  /\ failOnFetch = FALSE
  /\ ks = [op |-> "none", keyId |-> <<>>, privateAddress |-> "",
           peerPrivateAddress |-> Undefined, error |-> NoError, key |-> "none"]
  /\ identityKeys = <<>>
  /\ keyUses = <<>>

InitCodecIdle ==
  /\ pc = "idle"
  /\ ser = NoSerializeCall
  /\ wire = NoSerialization
  /\ tampers = 0
  /\ de = NoDeserializeCall

InitCertStoreIdle ==
  /\ dataByPrivateAddress = <<>>
  /\ now = 0
  /\ cs = [op |-> "none"]

InitPublicKeyStoreIdle ==
  /\ peerSessionKeys = <<>>
  /\ peerFailOnSave = FALSE
  /\ peerFetchError = FALSE
  /\ pks = [op |-> "none"]
  /\ latestSeen = <<>>

InitIssuanceIdle ==
  /\ caCertificate = NoCertificate
  /\ ic = [op |-> "none"]

InitAddressCacheIdle ==
  /\ privateAddressCache = <<>>
  /\ calls = <<>>

InitEnvelopedIdle ==
  /\ envelope = NoEnvelope
  /\ ed = [op |-> "none"]

InitSerialIdle ==
  /\ sn = [op |-> "none"]

InitCargoIdle ==
  /\ clock = DateOf(0, 0)
  /\ timeZone = TimeZoneOf(0, 0, 0)
  /\ batches = <<>>
  /\ gen = [status |-> "none"]

InitTtlIdle ==
  /\ tp = [op |-> "none"]

InitCdaIdle ==
  /\ cdaCalls = <<>>
  /\ cdaHistory = <<>>

InitRamf == InitCodecIdle /\ InitKeyStoreIdle /\ InitCertStoreIdle /\ InitPublicKeyStoreIdle /\ InitIssuanceIdle /\ InitAddressCacheIdle /\ InitEnvelopedIdle /\ InitSerialIdle /\ InitCargoIdle /\ InitTtlIdle /\ InitCdaIdle

\* A node serializes a message; on success the bytes are in flight.
Serialize(m, t, v) ==
  /\ pc = "idle"
  /\ LET result == serialize(m, t, v)
     IN /\ ser' = [called |-> TRUE, message |-> m, type |-> t, version |-> v,
                   result |-> result]
        /\ wire' = result.serialization
        /\ pc' = IF result.error = NoError THEN "wire" ELSE "done"
  /\ UNCHANGED <<tampers, de, notCodecVars>>

\* Bytes composed by a peer that validates nothing: the same format, for any
\* field values.
ReceiveForeign(m, t, v) ==
  /\ pc = "idle"
  /\ wire' = composeSerialization(m, t, v)
  /\ pc' = "wire"
  /\ UNCHANGED <<ser, tampers, de, notCodecVars>>

\* Signed plaintexts no serialize call produces: one that is not a RAMF
\* field set, and a field set whose date primitive is no date time.
MalformedPlaintexts ==
  {NotAFieldSet,
   [makeFieldSet([NoMessage EXCEPT !.recipientAddress = <<97>>])
      EXCEPT !.date.valid = FALSE]}

\* Bytes from a peer whose signed plaintext is malformed.
ReceiveMalformed(plaintext, t, v) ==
  /\ pc = "idle"
  /\ LET formatSignature == generateFormatSignature(t, v)
         signature == sign(plaintext, "sender", <<>>)
     IN wire' = [length |-> Len(formatSignature) + signature.length,
                 head |-> formatSignature,
                 cms |-> signature]
  /\ pc' = "wire"
  /\ UNCHANGED <<ser, tampers, de, notCodecVars>>

\* The bytes in flight are altered before they are handed to deserialize.
Tamper(kind) ==
  /\ pc = "wire"
  /\ tampers < MaxTampers
  /\ CanAlter(kind, wire)
  /\ wire' = Alter(kind, wire)
  /\ tampers' = tampers + 1
  /\ UNCHANGED <<pc, ser, de, notCodecVars>>

\* A node deserializes the bytes in flight.
Deserialize(t, v) ==
  /\ pc = "wire"
  /\ de' = [called |-> TRUE, input |-> wire, type |-> t, version |-> v,
            result |-> deserialize(wire, t, v)]
  /\ pc' = "done"
  /\ UNCHANGED <<ser, wire, tampers, notCodecVars>>

\* (The guard on pc is repeated ahead of the quantifiers so that the inputs
\* are enumerated only where a call can start.)
NextRamf ==
  \/ /\ pc = "idle"
     /\ \E m \in Messages, t \in SerializeTypes, v \in SerializeVersions :
          Serialize(m, t, v)
  \/ /\ pc = "idle"
     /\ \E m \in Messages, t \in SerializeTypes, v \in SerializeVersions :
          ReceiveForeign(m, t, v)
  \/ /\ pc = "idle"
     /\ \E p \in MalformedPlaintexts, t \in SerializeTypes,
           v \in SerializeVersions :
          ReceiveMalformed(p, t, v)
  \/ \E kind \in TamperKinds : Tamper(kind)
  \/ \E t \in ExpectedTypes, v \in ExpectedVersions : Deserialize(t, v)

SpecRamf == InitRamf /\ [][NextRamf]_vars

(***************************************************************************)
(* Inputs and actions of the private key store.                            *)
(***************************************************************************)
PrivateKeys == {"key1", "key2"}

\* Key ids (Buffers): 0xab and 0x01 0x23.
KeyIds == {<<171>>, <<1, 35>>}

\* The key id under which session keys are saved; the other one is only
\* looked up.
SavedKeyIds == {<<171>>}

PrivateAddresses == {"0aa", "0bb"}

PeerPrivateAddresses == {"0cc", "0dd"}

\* peerPrivateAddress?: absent, the empty string, or a peer's address.
OptionalPeers == {Undefined} \cup {Defined(p) : p \in PeerPrivateAddresses \cup {""}}

NoKeyStoreCall ==
  [op |-> "none", keyId |-> <<>>, privateAddress |-> "",
   peerPrivateAddress |-> Undefined, error |-> NoError, key |-> "none"]

\* The public field identityKeys at the start: empty, or holding a key put
\* there under the address of the second key pair.
InitialIdentityKeys ==
  {<<>>,
   [a \in {getPrivateAddressFromIdentityKey("rsa2.public")} |-> "rsa0.private"]}

\* new MockPrivateKeyStore(failOnSave, failOnFetch)
InitKeys ==
  /\ InitCodecIdle
  /\ InitCdaIdle
  /\ InitTtlIdle
  /\ InitCargoIdle
  /\ InitSerialIdle
  /\ InitEnvelopedIdle
  /\ InitAddressCacheIdle
  /\ InitIssuanceIdle
  /\ InitCertStoreIdle
  /\ InitPublicKeyStoreIdle
  /\ sessionKeys = <<>>
  /\ failOnSave \in BOOLEAN
  /\ failOnFetch \in BOOLEAN
  /\ ks = NoKeyStoreCall
  /\ identityKeys \in InitialIdentityKeys
  /\ keyUses = <<>>

\* What the calls made so far did with a key id.
KeyUse(uses, keyIdHex) ==
  IF keyIdHex \in DOMAIN uses THEN uses[keyIdHex]
  ELSE [saves |-> "never", returned |-> "never"]

OnceMore(count) == IF count = "never" THEN "once" ELSE "more"

NoteSave(uses, keyIdHex) ==
  [k \in DOMAIN uses \cup {keyIdHex} |->
     IF k = keyIdHex
       THEN [KeyUse(uses, k) EXCEPT !.saves = OnceMore(@)]
     ELSE uses[k]]

NoteReturn(uses, keyIdHex) ==
  [k \in DOMAIN uses \cup {keyIdHex} |->
     IF k = keyIdHex
       THEN [KeyUse(uses, k) EXCEPT !.returned = OnceMore(@)]
     ELSE uses[k]]

SaveSessionKey(privateKey, keyId, privateAddress, peerPrivateAddress) ==
  LET result == saveSessionKey(sessionKeys, failOnSave, privateKey, keyId,
                               privateAddress, peerPrivateAddress)
  IN /\ sessionKeys' = result.keys
     /\ ks' = [op |-> "saveSessionKey", keyId |-> keyId,
               privateAddress |-> privateAddress,
               peerPrivateAddress |-> peerPrivateAddress,
               error |-> result.error, key |-> "none"]
     /\ keyUses' = IF result.error = NoError
                     THEN NoteSave(keyUses, BufferToHex(keyId))
                   ELSE keyUses
     /\ UNCHANGED <<failOnSave, failOnFetch, identityKeys, notKeyStoreVars>>

RetrieveUnboundSessionKey(keyId, privateAddress) ==
  LET result == retrieveUnboundSessionKey(sessionKeys, failOnFetch, keyId,
                                          privateAddress)
  IN /\ ks' = [op |-> "retrieveUnboundSessionKey", keyId |-> keyId,
               privateAddress |-> privateAddress,
               peerPrivateAddress |-> Undefined,
               error |-> result.error, key |-> result.key]
     /\ keyUses' = IF result.error = NoError
                     THEN NoteReturn(keyUses, BufferToHex(keyId))
                   ELSE keyUses
     /\ UNCHANGED <<sessionKeys, failOnSave, failOnFetch, identityKeys, notKeyStoreVars>>

RetrieveSessionKey(keyId, privateAddress, peerPrivateAddress) ==
  LET result == retrieveSessionKey(sessionKeys, failOnFetch, keyId,
                                   privateAddress, peerPrivateAddress)
  IN /\ ks' = [op |-> "retrieveSessionKey", keyId |-> keyId,
               privateAddress |-> privateAddress,
               peerPrivateAddress |-> Defined(peerPrivateAddress),
               error |-> result.error, key |-> result.key]
     /\ keyUses' = IF result.error = NoError
                     THEN NoteReturn(keyUses, BufferToHex(keyId))
                   ELSE keyUses
     /\ UNCHANGED <<sessionKeys, failOnSave, failOnFetch, identityKeys, notKeyStoreVars>>

KeyOptions ==
  [modulus : {1024, 2048}, hashingAlgorithm : {"SHA-1", "SHA-256"}]

GenerateIdentityKeyPair(keyOptions, generated) ==
  LET result == generateIdentityKeyPair(identityKeys, failOnSave, keyOptions,
                                        generated)
  IN /\ identityKeys' = result.keys
     /\ ks' = [op |-> "generateIdentityKeyPair", keyId |-> <<>>,
               privateAddress |-> result.keyPair.privateAddress,
               peerPrivateAddress |-> Undefined,
               error |-> result.error, key |-> result.keyPair.privateKey]
     /\ UNCHANGED <<sessionKeys, failOnSave, failOnFetch, keyUses, notKeyStoreVars>>

RetrieveIdentityKey(privateAddress) ==
  /\ ks' = [op |-> "retrieveIdentityKey", keyId |-> <<>>,
            privateAddress |-> privateAddress,
            peerPrivateAddress |-> Undefined,
            error |-> NoError,
            key |-> retrieveIdentityKey(identityKeys, privateAddress)]
  /\ UNCHANGED <<sessionKeys, failOnSave, failOnFetch, identityKeys, keyUses, notKeyStoreVars>>

\* store.saveIdentityKey(privateAddress, privateKey), public in the mock:
\* the key is held under the address given, whatever key it is.
SaveIdentityKey(privateAddress, privateKey) ==
  LET result == saveIdentityKey(identityKeys, failOnSave, privateAddress, privateKey)
  IN /\ identityKeys' = result.keys
     /\ ks' = [op |-> "saveIdentityKey", keyId |-> <<>>,
               privateAddress |-> privateAddress,
               peerPrivateAddress |-> Undefined,
               error |-> result.error, key |-> "none"]
     /\ UNCHANGED <<sessionKeys, failOnSave, failOnFetch, keyUses, notKeyStoreVars>>

\* MockPrivateKeyStore.clear(): no identity key and no session key is held.
ClearPrivateKeyStore ==
  /\ identityKeys' = <<>>
  /\ sessionKeys' = <<>>
  /\ ks' = [NoKeyStoreCall EXCEPT !.op = "clear"]
  /\ UNCHANGED <<failOnSave, failOnFetch, keyUses, notKeyStoreVars>>

NextKeys ==
  \/ \E keyOptions \in KeyOptions, generated \in RSAKeyPairs :
       GenerateIdentityKeyPair(keyOptions, generated)
  \/ \E holder \in RSAKeyPairs, held \in RSAKeyPairs :
       SaveIdentityKey(getPrivateAddressFromIdentityKey(holder.publicKey), held.privateKey)
  \/ ClearPrivateKeyStore
  \/ \E generated \in RSAKeyPairs :
       RetrieveIdentityKey(getPrivateAddressFromIdentityKey(generated.publicKey))
  \/ \E privateKey \in PrivateKeys, keyId \in SavedKeyIds,
        privateAddress \in PrivateAddresses, peer \in OptionalPeers :
       SaveSessionKey(privateKey, keyId, privateAddress, peer)
  \/ \E keyId \in KeyIds, privateAddress \in PrivateAddresses :
       RetrieveUnboundSessionKey(keyId, privateAddress)
  \/ \E keyId \in KeyIds, privateAddress \in PrivateAddresses,
        peer \in PeerPrivateAddresses \cup {""} :
       RetrieveSessionKey(keyId, privateAddress, peer)

SpecKeys == InitKeys /\ [][NextKeys]_vars

\* The public field sessionKeys at the start: empty, or holding a record
\* put there for the first node.
InitialSessionKeys ==
  {<<>>,
   [k \in {BufferToHex(<<171>>)} |->
      [stored |-> TRUE, keySerialized |-> derSerializePrivateKey("key1"),
       privateAddress |-> "0aa", peerPrivateAddress |-> Undefined]]}

InitHeldKeys ==
  /\ InitCodecIdle
  /\ InitCdaIdle
  /\ InitTtlIdle
  /\ InitCargoIdle
  /\ InitSerialIdle
  /\ InitEnvelopedIdle
  /\ InitAddressCacheIdle
  /\ InitIssuanceIdle
  /\ InitCertStoreIdle
  /\ InitPublicKeyStoreIdle
  /\ sessionKeys \in InitialSessionKeys
  /\ failOnSave \in BOOLEAN
  /\ failOnFetch \in BOOLEAN
  /\ ks = NoKeyStoreCall
  /\ identityKeys \in InitialIdentityKeys
  /\ keyUses = <<>>

\* The private key store over a backend that may hold a record already.
SpecHeldKeys == InitHeldKeys /\ [][NextKeys]_vars

(***************************************************************************)
(* Certificate store: inputs, actions and specification.                   *)
(***************************************************************************)

\* The most records the store is given.
MaxSavedPaths == 3

\* The last instant of the clock, in seconds.
MaxNowSeconds == 3

SubjectPublicKeys == {"rsa1.public", "rsa2.public"}

ExpiryDates == {1000, 2000, 3000}

IssuerPrivateAddresses == {"0aa", "0bb"}

\* A path without authorities for a subject key and an expiry date.
PathOf(subjectPublicKey, expiryDate) == [leafCertificate |-> [subjectPublicKey |-> subjectPublicKey, expiryDate |-> expiryDate], certificateAuthorities |-> <<>>]

\* The paths offered to the store: one subject with a certificate for each
\* expiry date, and a second subject with a single certificate.
CertificationPaths == {PathOf("rsa1.public", e) : e \in ExpiryDates} \cup {PathOf("rsa2.public", 2000)}

SubjectPrivateAddresses == {getPrivateAddressFromIdentityKey(k) : k \in SubjectPublicKeys}

RECURSIVE SumOfLengths(_, _)
SumOfLengths(data, addresses) ==
  IF addresses = {} THEN 0
  ELSE LET a == CHOOSE x \in addresses : TRUE
       IN Len(data[a]) + SumOfLengths(data, addresses \ {a})

\* The number of records in the store.
StoredCount(data) == SumOfLengths(data, DOMAIN data)

InitCerts ==
  /\ InitCodecIdle
  /\ InitCdaIdle
  /\ InitTtlIdle
  /\ InitCargoIdle
  /\ InitSerialIdle
  /\ InitEnvelopedIdle
  /\ InitAddressCacheIdle
  /\ InitIssuanceIdle
  /\ InitKeyStoreIdle
  /\ InitPublicKeyStoreIdle
  /\ dataByPrivateAddress = <<>>
  /\ now = 0
  /\ cs = [op |-> "none"]

\* The clock advances by a second.
Tick ==
  /\ now + 1000 <= MaxNowSeconds * 1000
  /\ now' = now + 1000
  /\ UNCHANGED <<dataByPrivateAddress, cs, notCertStoreVars>>

\* store.save(path, issuerPrivateAddress)
Save(path, issuerPrivateAddress) ==
  /\ StoredCount(dataByPrivateAddress) < MaxSavedPaths
  /\ dataByPrivateAddress' = CertificateStore_save(dataByPrivateAddress, now, path, issuerPrivateAddress)
  /\ cs' = [op |-> "save", path |-> path, issuerPrivateAddress |-> issuerPrivateAddress, at |-> now, before |-> dataByPrivateAddress]
  /\ UNCHANGED <<now, notCertStoreVars>>

\* store.forceSave(path, issuerPrivateAddress)
ForceSave(path, issuerPrivateAddress) ==
  /\ StoredCount(dataByPrivateAddress) < MaxSavedPaths
  /\ dataByPrivateAddress' = forceSave(dataByPrivateAddress, path, issuerPrivateAddress)
  /\ cs' = [op |-> "forceSave", path |-> path, issuerPrivateAddress |-> issuerPrivateAddress, at |-> now, before |-> dataByPrivateAddress]
  /\ UNCHANGED <<now, notCertStoreVars>>

\* store.retrieveLatest(subjectPrivateAddress, issuerPrivateAddress)
RetrieveLatest(subjectPrivateAddress, issuerPrivateAddress) ==
  /\ cs' = [op |-> "retrieveLatest", subjectPrivateAddress |-> subjectPrivateAddress, issuerPrivateAddress |-> issuerPrivateAddress, at |-> now, result |-> CertificateStore_retrieveLatest(dataByPrivateAddress, now, subjectPrivateAddress, issuerPrivateAddress)]
  /\ UNCHANGED <<dataByPrivateAddress, now, notCertStoreVars>>

\* store.retrieveAll(subjectPrivateAddress, issuerPrivateAddress)
RetrieveAll(subjectPrivateAddress, issuerPrivateAddress) ==
  /\ cs' = [op |-> "retrieveAll", subjectPrivateAddress |-> subjectPrivateAddress, issuerPrivateAddress |-> issuerPrivateAddress, at |-> now, result |-> CertificateStore_retrieveAll(dataByPrivateAddress, now, subjectPrivateAddress, issuerPrivateAddress)]
  /\ UNCHANGED <<dataByPrivateAddress, now, notCertStoreVars>>

\* MockCertificateStore.clear(): no record is held.
ClearCertificateStore ==
  /\ dataByPrivateAddress' = <<>>
  /\ cs' = [op |-> "clear", at |-> now, before |-> dataByPrivateAddress]
  /\ UNCHANGED <<now, notCertStoreVars>>

NextCerts ==
  \/ Tick
  \/ ClearCertificateStore
  \/ \E path \in CertificationPaths, issuer \in IssuerPrivateAddresses : Save(path, issuer)
  \/ \E path \in CertificationPaths, issuer \in IssuerPrivateAddresses : ForceSave(path, issuer)
  \/ \E subject \in SubjectPrivateAddresses, issuer \in IssuerPrivateAddresses : RetrieveLatest(subject, issuer)
  \/ \E subject \in SubjectPrivateAddresses, issuer \in IssuerPrivateAddresses : RetrieveAll(subject, issuer)

SpecCerts == InitCerts /\ [][NextCerts]_vars

(***************************************************************************)
(* Public key store: inputs, actions and specification.                    *)
(***************************************************************************)

PeerSessionKeys == {[keyId |-> <<171>>, publicKey |-> "pub1"], [keyId |-> <<1, 35>>, publicKey |-> "pub2"]}

CreationTimes == {1000, 2000, 3000}

\* The record kept for a key created at a time.
SessionPublicKeyData(key, creationTime) == [publicKeyId |-> key.keyId, publicKeyDer |-> derSerializePublicKey(key.publicKey), publicKeyCreationTime |-> creationTime]

\* The store at the start: empty, or with a key registered for a peer.
InitialPeerSessionKeys == {<<>>} \cup {registerSessionKey(<<>>, SessionPublicKeyData(key, 2000), "0cc") : key \in PeerSessionKeys}

\* The latest creation time of the keys given to the store for a peer in
\* calls that did not fail, 0 for none.
LatestSeenOf(seen, peerPrivateAddress) == IF peerPrivateAddress \in DOMAIN seen THEN seen[peerPrivateAddress] ELSE 0

\* The history after a key created at a time is given for a peer.
NoteSeen(seen, peerPrivateAddress, creationTime) == [a \in (DOMAIN seen) \cup {peerPrivateAddress} |-> IF a = peerPrivateAddress /\ creationTime > LatestSeenOf(seen, a) THEN creationTime ELSE seen[a]]

InitPeers ==
  /\ InitCodecIdle
  /\ InitCdaIdle
  /\ InitTtlIdle
  /\ InitCargoIdle
  /\ InitSerialIdle
  /\ InitEnvelopedIdle
  /\ InitAddressCacheIdle
  /\ InitIssuanceIdle
  /\ InitKeyStoreIdle
  /\ InitCertStoreIdle
  /\ peerSessionKeys \in InitialPeerSessionKeys
  /\ peerFailOnSave \in BOOLEAN
  /\ peerFetchError \in BOOLEAN
  /\ pks = [op |-> "none"]
  /\ latestSeen = [a \in DOMAIN peerSessionKeys |-> peerSessionKeys[a].publicKeyCreationTime]

\* store.saveSessionKey(key, peerPrivateAddress, creationTime)
SavePeerSessionKey(key, peerPrivateAddress, creationTime, keepOnTie) ==
  LET r == PublicKeyStore_saveSessionKey(peerSessionKeys, peerFailOnSave, peerFetchError, key, peerPrivateAddress, creationTime, keepOnTie)
  IN /\ peerSessionKeys' = r.keys
     /\ pks' = [op |-> "saveSessionKey", key |-> key, peerPrivateAddress |-> peerPrivateAddress, creationTime |-> creationTime, before |-> peerSessionKeys, error |-> r.error]
     /\ latestSeen' = IF r.error = NoError THEN NoteSeen(latestSeen, peerPrivateAddress, creationTime) ELSE latestSeen
     /\ UNCHANGED <<peerFailOnSave, peerFetchError, notPublicKeyStoreVars>>

\* store.retrieveLastSessionKey(peerPrivateAddress)
RetrieveLastSessionKey(peerPrivateAddress) ==
  LET r == PublicKeyStore_retrieveLastSessionKey(peerSessionKeys, peerFetchError, peerPrivateAddress)
  IN /\ pks' = [op |-> "retrieveLastSessionKey", key |-> r.key, peerPrivateAddress |-> peerPrivateAddress, creationTime |-> 0, before |-> peerSessionKeys, error |-> r.error]
     /\ UNCHANGED <<peerSessionKeys, peerFailOnSave, peerFetchError, latestSeen, notPublicKeyStoreVars>>

\* store.registerSessionKey(keyData, peerPrivateAddress): the record is
\* written for the peer whatever the key held, and the keys seen for the
\* peer start again from it.
RegisterSessionKey(keyData, peerPrivateAddress) ==
  /\ peerSessionKeys' = registerSessionKey(peerSessionKeys, keyData, peerPrivateAddress)
  /\ pks' = [op |-> "registerSessionKey", key |-> keyData, peerPrivateAddress |-> peerPrivateAddress, creationTime |-> keyData.publicKeyCreationTime, before |-> peerSessionKeys, error |-> NoError]
  /\ latestSeen' = [a \in (DOMAIN latestSeen) \cup {peerPrivateAddress} |-> IF a = peerPrivateAddress THEN keyData.publicKeyCreationTime ELSE latestSeen[a]]
  /\ UNCHANGED <<peerFailOnSave, peerFetchError, notPublicKeyStoreVars>>

\* MockPublicKeyStore.clear(): no key is held for any peer.
ClearPublicKeyStore ==
  /\ peerSessionKeys' = <<>>
  /\ pks' = [op |-> "clear", before |-> peerSessionKeys]
  /\ latestSeen' = <<>>
  /\ UNCHANGED <<peerFailOnSave, peerFetchError, notPublicKeyStoreVars>>

NextPeers ==
  \/ \E key \in PeerSessionKeys, peer \in PeerPrivateAddresses, creationTime \in CreationTimes : RegisterSessionKey(SessionPublicKeyData(key, creationTime), peer)
  \/ ClearPublicKeyStore
  \/ \E key \in PeerSessionKeys, peer \in PeerPrivateAddresses, creationTime \in CreationTimes, keepOnTie \in BOOLEAN : SavePeerSessionKey(key, peer, creationTime, keepOnTie)
  \/ \E peer \in PeerPrivateAddresses : RetrieveLastSessionKey(peer)

SpecPeers == InitPeers /\ [][NextPeers]_vars

(***************************************************************************)
(* Certificate issuance: inputs, actions and specification.                *)
(***************************************************************************)

ValidityStartDates == {NoDate, [defined |-> TRUE, value |-> 1000], [defined |-> TRUE, value |-> 2500]}

ValidityEndDates == {1999, 3700}

CurrentDates == {1500, 3100}

CommonNames == {"gw1", "gw2"}

PathLenConstraints == {NoNumber, [defined |-> TRUE, value |-> 3]}

\* A certificate from elsewhere, without the basic constraints extension.
ForeignCertificate ==
  [startDate |-> 1000, expiryDate |-> 3000,
   basicConstraints |-> [present |-> FALSE, cA |-> FALSE, pathLenConstraint |-> 0],
   commonName |-> "ca0", issuerCommonName |-> "ca0",
   subjectPublicKey |-> "rsa2.public", authorityPublicKey |-> "rsa2.public"]

IssuanceOptions ==
  [commonName : CommonNames,
   validityStartDate : ValidityStartDates,
   validityEndDate : ValidityEndDates,
   isCA : BOOLEAN,
   pathLenConstraint : PathLenConstraints,
   subjectPublicKey : {"rsa1.public"},
   issuerCertificate : {NoCertificate}]

InitIssue ==
  /\ InitCodecIdle
  /\ InitCdaIdle
  /\ InitTtlIdle
  /\ InitCargoIdle
  /\ InitSerialIdle
  /\ InitEnvelopedIdle
  /\ InitAddressCacheIdle
  /\ InitKeyStoreIdle
  /\ InitCertStoreIdle
  /\ InitPublicKeyStoreIdle
  /\ caCertificate \in {NoCertificate, ForeignCertificate}
  /\ ic = [op |-> "none"]

\* Certificate.issue(options) without an issuer certificate (self-issued),
\* or under the certificate at hand.
Issue(options, withIssuer, currentDate) ==
  LET full == [options EXCEPT !.issuerCertificate = IF withIssuer THEN caCertificate ELSE NoCertificate]
      r == issue(full, currentDate)
  IN /\ ic' = [op |-> "issue", options |-> full, currentDate |-> currentDate, error |-> r.error, certificate |-> r.certificate]
     /\ UNCHANGED <<caCertificate, notIssuanceVars>>

\* The certificate just issued becomes the one to issue under.
Adopt ==
  /\ ic.op = "issue"
  /\ ic.certificate # NoCertificate
  /\ caCertificate' = ic.certificate
  /\ UNCHANGED <<ic, notIssuanceVars>>

NextIssue ==
  \/ \E options \in IssuanceOptions, withIssuer \in BOOLEAN, currentDate \in CurrentDates : Issue(options, withIssuer, currentDate)
  \/ Adopt

SpecIssue == InitIssue /\ [][NextIssue]_vars

(***************************************************************************)
(* Address cache: inputs, actions and specification.                       *)
(***************************************************************************)

\* The most calls of calculateSubjectPrivateAddress made.
MaxCalls == 3

\* Three certificate objects: the first two are equal certificates, the
\* third has another subject key.
CertificateObjects == {"c1", "c2", "c3"}

SubjectKeyOf(object) == IF object = "c3" THEN "rsa2.public" ELSE "rsa1.public"

InitAddresses ==
  /\ InitCodecIdle
  /\ InitCdaIdle
  /\ InitTtlIdle
  /\ InitCargoIdle
  /\ InitSerialIdle
  /\ InitEnvelopedIdle
  /\ InitKeyStoreIdle
  /\ InitCertStoreIdle
  /\ InitPublicKeyStoreIdle
  /\ InitIssuanceIdle
  /\ privateAddressCache = [c \in CertificateObjects |-> NullAddress]
  /\ calls = <<>>

\* certificate.calculateSubjectPrivateAddress() is called and runs up to
\* its first suspension, or to its end when the address is cached.
CallCalculate(object) ==
  /\ Len(calls) < MaxCalls
  /\ LET r == startCalculateSubjectPrivateAddress(privateAddressCache[object])
     IN calls' = Append(calls, [certificate |-> object, pc |-> r.pc, publicKey |-> "", result |-> r.result])
  /\ UNCHANGED <<privateAddressCache, notAddressCacheVars>>

\* await this.getPublicKey() resumes; getPrivateAddressFromIdentityKey is
\* called and the call suspends again.
ResumeWithPublicKey(n) ==
  /\ n \in 1..Len(calls)
  /\ calls[n].pc = "getPublicKey"
  /\ calls' = [calls EXCEPT ![n].pc = "digest", ![n].publicKey = SubjectKeyOf(calls[n].certificate)]
  /\ UNCHANGED <<privateAddressCache, notAddressCacheVars>>

\* await getPrivateAddressFromIdentityKey(...) resumes: the cache is
\* assigned and returned.
ResumeWithAddress(n) ==
  /\ n \in 1..Len(calls)
  /\ calls[n].pc = "digest"
  /\ LET object == calls[n].certificate
         r == finishCalculateSubjectPrivateAddress(privateAddressCache[object], getPrivateAddressFromIdentityKey(calls[n].publicKey))
     IN /\ privateAddressCache' = [privateAddressCache EXCEPT ![object] = r.cache]
        /\ calls' = [calls EXCEPT ![n].pc = "returned", ![n].result = r.result]
  /\ UNCHANGED notAddressCacheVars

NextAddresses ==
  \/ \E object \in CertificateObjects : CallCalculate(object)
  \/ \E n \in 1..MaxCalls : ResumeWithPublicKey(n)
  \/ \E n \in 1..MaxCalls : ResumeWithAddress(n)

SpecAddresses == InitAddresses /\ [][NextAddresses]_vars

(***************************************************************************)
(* Serial numbers: inputs, actions and specification.                      *)
(***************************************************************************)

\* Values of generateRandom64BitValue(): eight octets, among them the one
\* of zeros only, the one of 0xff only, and first octets on both sides of
\* the sign bit.
Random64BitValues == {<<a, b, c, c, c, c, c, d>> : a \in {0, 1, 127, 128, 255}, b \in {0, 1, 255}, c \in {0, 255}, d \in {0, 1, 128, 255}}

InitSerial ==
  /\ InitCodecIdle
  /\ InitCdaIdle
  /\ InitTtlIdle
  /\ InitCargoIdle
  /\ InitKeyStoreIdle
  /\ InitCertStoreIdle
  /\ InitPublicKeyStoreIdle
  /\ InitIssuanceIdle
  /\ InitAddressCacheIdle
  /\ InitEnvelopedIdle
  /\ sn = [op |-> "none"]

\* generatePositiveASN1Integer() is called and the random source gives
\* these octets.
GenerateSerial(random) ==
  /\ sn' = [op |-> "generatePositiveASN1Integer", random |-> random, valueHex |-> generatePositiveASN1Integer(random)]
  /\ UNCHANGED notSerialVars

NextSerial == \E random \in Random64BitValues : GenerateSerial(random)

SpecSerial == InitSerial /\ [][NextSerial]_vars

(***************************************************************************)
(* Cargo generation: inputs, actions and specification.                    *)
(***************************************************************************)
MaxBatches == 3

\* The clock starts within this second and stops MaxClockSeconds later.
ClockStartSeconds == 20000

MaxClockSeconds == 2

ClockStepMilliseconds == 600

\* Three hours before the clock starts.
FirstCreationSeconds == ClockStartSeconds - CLOCK_DRIFT_TOLERANCE_HOURS * 3600

\* The time zones of the process: UTC; one whose clocks were put back an
\* hour, from four hours behind UTC to five, an hour before the clock
\* starts; and one whose clocks were put forward an hour then, from five
\* hours behind UTC to four.
TimeZones ==
  {TimeZoneOf(0, 0, 0),
   TimeZoneOf(0 - 14400, 0 - 18000, ClockStartSeconds - 3600),
   TimeZoneOf(0 - 18000, 0 - 14400, ClockStartSeconds - 3600)}

\* No cargo is being made.
NoCargoResult == [error |-> NoError, cargo |-> NoMessage, serialization |-> NoSerialization]

NoPendingCargo == [options |-> [creationDate |-> DateOf(0, 0), ttl |-> 0], payload |-> [len |-> 0, fill |-> 0], result |-> NoCargoResult]

\* Expiry dates of the batches: before every creation date, between the
\* creation dates, shortly after them, RAMF_MAX_TTL after the first of
\* them to the second, and later than that.
BatchExpiryDates ==
  {DateOf(FirstCreationSeconds - 1, 999),
   DateOf(FirstCreationSeconds + 1, 0),
   DateOf(FirstCreationSeconds + 100, 500),
   DateOf(FirstCreationSeconds + RAMF_MAX_TTL, 0),
   DateOf(FirstCreationSeconds + RAMF_MAX_TTL + 5, 900)}

Batches == {[messageSerialized |-> [len |-> 32, fill |-> 1], expiryDate |-> e] : e \in BatchExpiryDates}

BatchStreams == UNION {[1..n -> Batches] : n \in 0..MaxBatches}

\* getOutboundRAMFAddress() and nodeDeliveryAuth of the channel.
OutboundRAMFAddress == <<48, 97>>

NodeDeliveryAuth == "sender"

\* The identifier that the constructor of the n-th cargo draws.
CargoIdOf(n) == <<97, 48 + n>>

InitCargo ==
  /\ InitCodecIdle
  /\ InitCdaIdle
  /\ InitTtlIdle
  /\ InitKeyStoreIdle
  /\ InitCertStoreIdle
  /\ InitPublicKeyStoreIdle
  /\ InitIssuanceIdle
  /\ InitAddressCacheIdle
  /\ InitEnvelopedIdle
  /\ InitSerialIdle
  /\ clock \in {DateOf(ClockStartSeconds, ms) : ms \in {0, 250}}
  /\ timeZone \in TimeZones
  /\ batches \in BatchStreams
  /\ gen = [status |-> "suspended", yielded |-> <<>>, taken |-> <<>>, error |-> NoError, pending |-> NoPendingCargo]

\* Time passes.
ClockTick ==
  /\ clock.seconds < ClockStartSeconds + MaxClockSeconds
  /\ clock' = DateOf(clock.seconds + (clock.milliseconds + ClockStepMilliseconds) \div 1000,
                     (clock.milliseconds + ClockStepMilliseconds) % 1000)
  /\ UNCHANGED <<timeZone, batches, gen>>
  /\ UNCHANGED notCargoVars

\* The consumer has asked for the next cargo and the stream gives a batch:
\* the loop reads the clock, computes the creation date and the TTL and
\* waits for encryptPayload (line 24).
TakeBatch ==
  /\ gen.status = "suspended"
  /\ batches # <<>>
  /\ batches' = Tail(batches)
  /\ gen' = [gen EXCEPT !.status = "encrypting",
                        !.taken = Append(@, [batch |-> Head(batches), at |-> clock]),
                        !.pending = [options |-> cargoOptions(Head(batches), clock, timeZone),
                                     payload |-> Head(batches).messageSerialized,
                                     result |-> NoCargoResult]]
  /\ UNCHANGED <<clock, timeZone>>
  /\ UNCHANGED notCargoVars

\* encryptPayload has given the payload: the loop constructs the cargo,
\* calls cargo.serialize() and waits for it (line 27).
SerializeCargo ==
  /\ gen.status = "encrypting"
  /\ gen' = [gen EXCEPT !.status = "serializing",
                        !.pending.result =
                          serializeCargo(buildCargo(OutboundRAMFAddress, NodeDeliveryAuth, CargoIdOf(Len(gen.taken)),
                                                    encryptPayload(gen.pending.payload), gen.pending.options))]
  /\ UNCHANGED <<clock, timeZone, batches>>
  /\ UNCHANGED notCargoVars

\* cargo.serialize() has settled: the generator yields the serialization,
\* or ends with the error thrown.
YieldCargo ==
  /\ gen.status = "serializing"
  /\ gen' = IF gen.pending.result.error # NoError
              THEN [gen EXCEPT !.status = "failed", !.error = gen.pending.result.error, !.pending = NoPendingCargo]
            ELSE [gen EXCEPT !.status = "suspended", !.pending = NoPendingCargo,
                             !.yielded = Append(@, [cargo |-> gen.pending.result.cargo,
                                                    serialization |-> gen.pending.result.serialization])]
  /\ UNCHANGED <<clock, timeZone, batches>>
  /\ UNCHANGED notCargoVars

\* The consumer asks for the next cargo and the stream has ended.
EndOfCargoes ==
  /\ gen.status = "suspended"
  /\ batches = <<>>
  /\ gen' = [gen EXCEPT !.status = "done"]
  /\ UNCHANGED <<clock, timeZone, batches>>
  /\ UNCHANGED notCargoVars

NextCargo == ClockTick \/ TakeBatch \/ SerializeCargo \/ YieldCargo \/ EndOfCargoes

SpecCargo == InitCargo /\ [][NextCargo]_vars

(***************************************************************************)
(* TTL parsing: inputs, actions and specification.                         *)
(***************************************************************************)
\* The octets of the TTL of a message received from a peer: one to nine of
\* them, on both sides of the sign, of RAMF_MAX_TTL and of 2^53 - 1.
TtlOctets ==
  {<<a>> \o Rep(b, n) : a \in {0, 1, 31, 32, 127, 128, 255}, b \in {0, 255}, n \in 0..8}
    \cup {IntegerOctets(RAMF_MAX_TTL), IntegerOctets(RAMF_MAX_TTL + 1)}
    \cup {<<31>> \o Rep(255, 6), <<0, 31>> \o Rep(255, 6), <<0, 32>> \o Rep(0, 6)}

\* The message that carries them, sound in every other field.
TtlCarrier ==
  [NoMessage EXCEPT !.recipientAddress = <<48, 97>>, !.id = <<97>>, !.creationDate = 1500,
                    !.payloadSerialized = [len |-> 32, fill |-> 171]]

InitTtl ==
  /\ InitCodecIdle
  /\ InitCdaIdle
  /\ InitKeyStoreIdle
  /\ InitCertStoreIdle
  /\ InitPublicKeyStoreIdle
  /\ InitIssuanceIdle
  /\ InitAddressCacheIdle
  /\ InitEnvelopedIdle
  /\ InitSerialIdle
  /\ InitCargoIdle
  /\ tp = [op |-> "none"]

\* A peer signs a field set with these TTL octets and the node
\* deserializes the message.
DeserializeWithTtl(octets, t, v) ==
  /\ LET fields == makeFieldSet(TtlCarrier)
         plaintext == [fields EXCEPT !.ttl = octets,
                                     !.byteLength = FieldSetDerLength(fields.recipientAddress, fields.id, octets, fields.payload)]
         formatSignature == generateFormatSignature(t, v)
         signature == sign(plaintext, "sender", <<>>)
         serialization == [length |-> Len(formatSignature) + signature.length, head |-> formatSignature, cms |-> signature]
     IN tp' = [op |-> "deserialize", ttl |-> octets, result |-> deserialize(serialization, t, v)]
  /\ UNCHANGED notTtlVars

NextTtl == \E octets \in TtlOctets, t \in ExpectedTypes, v \in ExpectedVersions : DeserializeWithTtl(octets, t, v)

SpecTtl == InitTtl /\ [][NextTtl]_vars

(***************************************************************************)
(* CDA issuers: inputs, actions and specifications.                        *)
(***************************************************************************)
\* The most calls of getOrCreateCDAIssuer made.
MaxCdaCalls == 3

CdaCallers == {1, 2}

\* The instants that the clock shows, in days and milliseconds.
CdaInstants ==
  {0, 90 * DayLength, 90 * DayLength + 400, 180 * DayLength, 271 * DayLength}

\* The instants of calls that are under way together: the start, when an
\* issuer of the start has less than 90 days left, and when it has expired.
CdaRaceInstants == {0, 90 * DayLength + 400, 271 * DayLength}

\* Values of generateRandom64BitValue() for the serial numbers.
CdaRandoms == {<<1, 0, 0, 0, 0, 0, 0, 1>>, <<200, 0, 0, 0, 0, 0, 0, 2>>}

\* this.nodePrivateKey of the channel, and the private address of the node.
NodePrivateKey == "rsa1.private"

NodePrivateAddress == getPrivateAddressFromIdentityKey(getRSAPublicKeyFromPrivate(NodePrivateKey))

\* What the certificate store holds at the start: nothing, or an issuer
\* that the node issued 80 days before, together with a certificate of the
\* node from another issuer that expires later.
InitialCdaStores ==
  {<<>>,
   forceSave(forceSave(<<>>, CertificationPath(issueCDAIssuer(0 - 80 * DayLength, NodePrivateKey, 0 - 80 * DayLength, <<9, 0, 0, 0, 0, 0, 0, 0>>), <<>>), NodePrivateAddress),
             CertificationPath(issueCDAIssuer(120 * DayLength, NodePrivateKey, 0, <<9, 0, 0, 0, 0, 0, 0, 1>>), <<>>), "0bb")}

IdleCdaCall == [pc |-> "idle"]

CdaCallInProgress(c) == cdaCalls[c].pc \in {"retrieve", "decide", "issue", "save", "return"}

CdaCallsBegun == Len(cdaHistory) + Cardinality({c \in CdaCallers : CdaCallInProgress(c)})

\* The record of the backend's lists for the node as subject.
CdaRecords(data) == CertificateDataOf(data, NodePrivateAddress)

InitCda ==
  /\ InitCodecIdle
  /\ InitKeyStoreIdle
  /\ InitPublicKeyStoreIdle
  /\ InitIssuanceIdle
  /\ InitAddressCacheIdle
  /\ InitEnvelopedIdle
  /\ InitSerialIdle
  /\ InitCargoIdle
  /\ InitTtlIdle
  /\ dataByPrivateAddress \in InitialCdaStores
  /\ now = 0
  /\ cs = [op |-> "none"]
  /\ cdaCalls = [c \in CdaCallers |-> IdleCdaCall]
  /\ cdaHistory = <<>>

\* What the actions of this component leave alone: they use the store and
\* the clock of the certificate store.
cdaFrameVars == <<cs, codecVars, keyStoreVars, publicKeyStoreVars, issuanceVars, addressCacheVars, envelopedVars, serialVars, cargoVars, ttlVars>>

\* Time passes, between the calls and while a call is suspended at one of
\* its awaits.
CdaAdvance(instant) ==
  /\ now < instant
  /\ now' = instant
  /\ UNCHANGED <<dataByPrivateAddress, cdaCalls, cdaHistory, cdaFrameVars>>

\* Lines 17-20 of getOrCreateCDAIssuer: the call takes the date and is
\* suspended at the awaits of lines 19 and 20.
CdaBegin(c) ==
  /\ ~CdaCallInProgress(c)
  /\ CdaCallsBegun < MaxCdaCalls
  /\ cdaCalls' = [cdaCalls EXCEPT ![c] = [pc |-> "retrieve", date |-> now, storeBefore |-> dataByPrivateAddress]]
  /\ UNCHANGED <<dataByPrivateAddress, now, cdaHistory, cdaFrameVars>>

\* The same when no other call is under way.
CdaBeginAlone(c) ==
  /\ \A other \in CdaCallers : ~CdaCallInProgress(other)
  /\ CdaBegin(c)

\* Lines 22-25: retrieveLatest reads the store, and the call is suspended
\* until the promise settles.
CdaRetrieve(c) ==
  /\ cdaCalls[c].pc = "retrieve"
  /\ LET call == cdaCalls[c]
         existingIssuerPath == CertificateStore_retrieveLatest(dataByPrivateAddress, now, NodePrivateAddress, NodePrivateAddress)
     IN cdaCalls' = [cdaCalls EXCEPT ![c] = [pc |-> "decide", date |-> call.date, storeBefore |-> call.storeBefore, storeAtCheck |-> dataByPrivateAddress, existingIssuerPath |-> existingIssuerPath]]
  /\ UNCHANGED <<dataByPrivateAddress, now, cdaHistory, cdaFrameVars>>

\* Lines 26-31, once the promise of line 22 has settled: the issuer
\* retrieved is returned when it has 90 days left, and otherwise the call
\* goes on to issue one.
CdaDecide(c) ==
  /\ cdaCalls[c].pc = "decide"
  /\ LET call == cdaCalls[c]
         selected == selectCDAIssuer(call.date, call.existingIssuerPath)
     IN IF selected # NoCertificate
        THEN /\ cdaCalls' = [cdaCalls EXCEPT ![c] = [pc |-> "done"]]
             /\ cdaHistory' = Append(cdaHistory, [caller |-> c, date |-> call.date, storeBefore |-> call.storeBefore, storeAtCheck |-> call.storeAtCheck, storeSaved |-> call.storeAtCheck, storeAfter |-> dataByPrivateAddress, issued |-> FALSE, result |-> selected, returned |-> now])
        ELSE /\ cdaCalls' = [cdaCalls EXCEPT ![c] = [pc |-> "issue", date |-> call.date, storeBefore |-> call.storeBefore, storeAtCheck |-> call.storeAtCheck]]
             /\ UNCHANGED cdaHistory
  /\ UNCHANGED <<dataByPrivateAddress, now, cdaFrameVars>>

\* Lines 33-38: the issuer is issued.
CdaIssue(c, random) ==
  /\ cdaCalls[c].pc = "issue"
  /\ LET call == cdaCalls[c]
         issuer == issueCDAIssuer(call.date, NodePrivateKey, now, random)
     IN cdaCalls' = [cdaCalls EXCEPT ![c] = [pc |-> "save", date |-> call.date, storeBefore |-> call.storeBefore, storeAtCheck |-> call.storeAtCheck, issuer |-> issuer]]
  /\ UNCHANGED <<dataByPrivateAddress, now, cdaHistory, cdaFrameVars>>

\* Lines 39-40: save writes the path of the issuer to the store, and the
\* call is suspended until the promise settles.
CdaSave(c) ==
  /\ cdaCalls[c].pc = "save"
  /\ LET call == cdaCalls[c]
         path == CertificationPath(call.issuer, <<>>)
         saved == CertificateStore_save(dataByPrivateAddress, now, path, NodePrivateAddress)
     IN /\ dataByPrivateAddress' = saved
        /\ cdaCalls' = [cdaCalls EXCEPT ![c] = [pc |-> "return", date |-> call.date, storeBefore |-> call.storeBefore, storeAtCheck |-> call.storeAtCheck, issuer |-> call.issuer, storeSaved |-> saved]]
  /\ UNCHANGED <<now, cdaHistory, cdaFrameVars>>

\* Line 41, once the promise of line 40 has settled: the issuer is
\* returned.
CdaReturn(c) ==
  /\ cdaCalls[c].pc = "return"
  /\ LET call == cdaCalls[c]
     IN /\ cdaCalls' = [cdaCalls EXCEPT ![c] = [pc |-> "done"]]
        /\ cdaHistory' = Append(cdaHistory, [caller |-> c, date |-> call.date, storeBefore |-> call.storeBefore, storeAtCheck |-> call.storeAtCheck, storeSaved |-> call.storeSaved, storeAfter |-> dataByPrivateAddress, issued |-> TRUE, result |-> call.issuer, returned |-> now])
  /\ UNCHANGED <<dataByPrivateAddress, now, cdaFrameVars>>

\* Calls made one after the other.
NextCdaSequential ==
  \/ \E instant \in CdaInstants : CdaAdvance(instant)
  \/ \E c \in CdaCallers : CdaBeginAlone(c)
  \/ \E c \in CdaCallers : CdaRetrieve(c)
  \/ \E c \in CdaCallers : CdaDecide(c)
  \/ \E c \in CdaCallers, random \in CdaRandoms : CdaIssue(c, random)
  \/ \E c \in CdaCallers : CdaSave(c)
  \/ \E c \in CdaCallers : CdaReturn(c)

SpecCdaSequential == InitCda /\ [][NextCdaSequential]_vars

\* Calls that may be under way together.
NextCda ==
  \/ \E instant \in CdaRaceInstants : CdaAdvance(instant)
  \/ \E c \in CdaCallers : CdaBegin(c)
  \/ \E c \in CdaCallers : CdaRetrieve(c)
  \/ \E c \in CdaCallers : CdaDecide(c)
  \/ \E c \in CdaCallers, random \in CdaRandoms : CdaIssue(c, random)
  \/ \E c \in CdaCallers : CdaSave(c)
  \/ \E c \in CdaCallers : CdaReturn(c)

SpecCda == InitCda /\ [][NextCda]_vars

(***************************************************************************)
(* Enveloped data: inputs, actions and specification.                      *)
(***************************************************************************)

\* options.aesKeySize: absent, or a number.
AesKeySizeOptions == {NoNumber} \cup {[defined |-> TRUE, value |-> n] : n \in {-128, -1, 0, 1, 64, 128, 192, 256, 512}}

Plaintexts == {"", "sdu"}

RecipientSessionKeys == {[keyId |-> <<171>>, publicKey |-> "pub1"]}

DhKeyIds == {<<1, 2, 3, 4, 5, 6, 7, 8>>}

\* The lists of RecipientInfos of the values received from elsewhere.
ForeignRecipientInfos == UNION {[1..n -> [variant : {1, 2, 3, 4}, rid : {"other"}]] : n \in 0..2}

\* Serializations received from elsewhere.
ForeignEnvelopes ==
  [isContentInfo : BOOLEAN,
   contentType : {CMS_OIDS_ENVELOPED_DATA, CMS_OIDS_SIGNED_DATA},
   contentValid : BOOLEAN,
   content : [recipientInfos : ForeignRecipientInfos,
              unprotectedAttrs : {<<>>},
              encryptedContent : {[algorithm |-> "AES-CBC", length |-> 128, plaintext |-> "sdu"]}]]

InitEnveloped ==
  /\ InitCodecIdle
  /\ InitCdaIdle
  /\ InitTtlIdle
  /\ InitCargoIdle
  /\ InitSerialIdle
  /\ InitKeyStoreIdle
  /\ InitCertStoreIdle
  /\ InitPublicKeyStoreIdle
  /\ InitIssuanceIdle
  /\ InitAddressCacheIdle
  /\ envelope = NoEnvelope
  /\ ed = [op |-> "none"]

\* SessionlessEnvelopedData.encrypt(...), then serialize() of the result.
EncryptSessionless(plaintext, aesKeySize) ==
  LET r == SessionlessEnvelopedData_encrypt(plaintext, "recipient", [aesKeySize |-> aesKeySize])
  IN /\ ed' = [op |-> "SessionlessEnvelopedData.encrypt", aesKeySize |-> aesKeySize, input |-> NoEnvelope, error |-> r.error, envelopedData |-> r.envelopedData]
     /\ envelope' = IF r.error = NoError THEN EnvelopedData_serialize(r.envelopedData) ELSE envelope
     /\ UNCHANGED notEnvelopedVars

\* SessionEnvelopedData.encrypt(...), then serialize() of the result.
EncryptSession(plaintext, recipientSessionKey, aesKeySize, dhKeyId) ==
  LET r == SessionEnvelopedData_encrypt(plaintext, recipientSessionKey, [aesKeySize |-> aesKeySize], dhKeyId)
  IN /\ ed' = [op |-> "SessionEnvelopedData.encrypt", aesKeySize |-> aesKeySize, input |-> NoEnvelope, error |-> r.error, envelopedData |-> r.envelopedData]
     /\ envelope' = IF r.error = NoError THEN EnvelopedData_serialize(r.envelopedData) ELSE envelope
     /\ UNCHANGED notEnvelopedVars

\* A serialization arrives from elsewhere.
ReceiveForeignEnvelope(foreign) ==
  /\ envelope' = foreign
  /\ ed' = [op |-> "receive", aesKeySize |-> NoNumber, input |-> foreign, error |-> NoError, envelopedData |-> NoEnvelopedData]
  /\ UNCHANGED notEnvelopedVars

\* EnvelopedData.deserialize(envelope)
DeserializeEnveloped ==
  /\ envelope # NoEnvelope
  /\ LET r == EnvelopedData_deserialize(envelope)
     IN ed' = [op |-> "EnvelopedData.deserialize", aesKeySize |-> NoNumber, input |-> envelope, error |-> r.error, envelopedData |-> r.envelopedData]
  /\ UNCHANGED <<envelope, notEnvelopedVars>>

NextEnveloped ==
  \/ \E plaintext \in Plaintexts, aesKeySize \in AesKeySizeOptions : EncryptSessionless(plaintext, aesKeySize)
  \/ \E plaintext \in Plaintexts, key \in RecipientSessionKeys, aesKeySize \in AesKeySizeOptions, dhKeyId \in DhKeyIds : EncryptSession(plaintext, key, aesKeySize, dhKeyId)
  \/ \E foreign \in ForeignEnvelopes : ReceiveForeignEnvelope(foreign)
  \/ DeserializeEnveloped

SpecEnveloped == InitEnveloped /\ [][NextEnveloped]_vars

(***************************************************************************)
(* Properties of the codec (specification SpecRamf).                       *)
(***************************************************************************)
\* A node address: an absolute URL, or a private address (lowercase hex).
IsNodeAddress(s) == IsAbsoluteUrl(s) \/ MatchesPrivateAddressRegex(s)

\* A message field outside the RAMF bounds.
BoundViolated(m) ==
  \/ Len(m.recipientAddress) > MAX_RECIPIENT_ADDRESS_LENGTH
  \/ Len(m.id) > MAX_ID_LENGTH
  \/ m.ttl < 0
  \/ m.ttl > RAMF_MAX_TTL
  \/ m.payloadSerialized.len > MAX_PAYLOAD_LENGTH

\* A decoded field outside the RAMF bounds; the TTL is the number that
\* parseMessageFields made of the INTEGER.
FieldBoundViolated(fields) ==
  \/ Len(fields.recipientAddress) > MAX_RECIPIENT_ADDRESS_LENGTH
  \/ Len(fields.id) > MAX_ID_LENGTH
  \/ LessThan(fields.ttl, NumberOf(0))
  \/ LessThan(NumberOf(RAMF_MAX_TTL), fields.ttl)
  \/ fields.payload.len > MAX_PAYLOAD_LENGTH

\* The serialization begins with 'Relaynet' and has the two octets after it.
HasFormatSignature(w) ==
  /\ w.length >= 10
  /\ Len(w.head) = 10
  /\ SubSeq(w.head, 1, 8) = <<82, 101, 108, 97, 121, 110, 101, 116>>

LastStep(result) == result.steps[Len(result.steps)]

\* serialize succeeded and deserialize was given its output, unaltered, with
\* the same concrete message type and version.
RoundTripMade ==
  /\ ser.called
  /\ ser.result.error = NoError
  /\ de.called
  /\ de.input = ser.result.serialization
  /\ de.type = ser.type
  /\ de.version = ser.version

\* C1 (as stated): for every valid message, deserialize(serialize(m)) yields a
\* message with the same recipient address, id, TTL and payload, the creation
\* date truncated to whole seconds, the signer's certificate as sender
\* certificate and the attached certificates as sender CA chain.
C1_RoundTrip ==
  (RoundTripMade /\ IsNodeAddress(ser.message.recipientAddress)) =>
    /\ de.result.error = NoError
    /\ de.result.message.recipientAddress = ser.message.recipientAddress
    /\ de.result.message.id = ser.message.id
    /\ de.result.message.ttl = ser.message.ttl
    /\ de.result.message.payloadSerialized = ser.message.payloadSerialized
    /\ de.result.message.creationDate = (ser.message.creationDate \div 1000) * 1000
    /\ de.result.message.senderCertificate = ser.message.senderCertificate
    /\ de.result.message.senderCaCertificateChain
         = ser.message.senderCaCertificateChain

\* C2 (as stated): a recipient address that is neither an absolute URL nor
\* lowercase hexadecimal is accepted neither by serialize nor by deserialize.
C2_NeverAccepted ==
  /\ (ser.called /\ ~IsNodeAddress(ser.message.recipientAddress))
       => ser.result.error # NoError
  /\ (de.called /\ de.result.error = NoError)
       => IsNodeAddress(de.result.message.recipientAddress)

\* deserialize got as far as decoding a well-formed field set.
FieldsDecoded ==
  /\ de.called
  /\ de.input.length <= MAX_RAMF_MESSAGE_LENGTH
  /\ HasFormatSignature(de.input)
  /\ de.input.head[9] = de.type
  /\ de.input.head[10] = de.version
  /\ de.input.cms.wellFormed
  /\ de.input.cms.signatureValid
  /\ de.input.cms.plaintext.wellFormed
  /\ de.input.cms.plaintext.date.valid

\* C2 (amended): deserialize never constructs a message whose recipient
\* address is neither an absolute URL nor lowercase hexadecimal: when the
\* decoded address is within the length bound and is no node address,
\* deserialize fails with a RAMFValidationError thrown by
\* validateRecipientAddress.  serialize checks the length of the address only:
\* it accepts an address that is no node address when all bounds hold.
C2_DeserializeRefusesInvalidAddress ==
  /\ (de.called /\ de.result.error = NoError)
       => IsNodeAddress(de.result.message.recipientAddress)
  /\ FieldsDecoded =>
       LET address == TextDecode(de.input.cms.plaintext.recipientAddress)
       IN (Len(address) <= MAX_RECIPIENT_ADDRESS_LENGTH /\ ~IsNodeAddress(address))
            => /\ de.result.error.name = "RAMFValidationError"
               /\ LastStep(de.result) = "validateRecipientAddress"
  /\ (ser.called /\ ~IsNodeAddress(ser.message.recipientAddress)
        /\ ~BoundViolated(ser.message))
       => ser.result.error = NoError

\* C2 witness: serialize accepted an address that is no node address and
\* deserialize refused its output at validateRecipientAddress.
C2_Witness ==
  /\ RoundTripMade
  /\ ~IsNodeAddress(ser.message.recipientAddress)
  /\ de.result.error.name = "RAMFValidationError"
  /\ LastStep(de.result) = "validateRecipientAddress"

\* C3: the size check is the first thing deserialize does: an input longer
\* than 9,437,184 octets is rejected with a RAMFSyntaxError before anything
\* else is looked at, and an input of exactly 9,437,184 octets passes the size
\* check (deserialize goes on to the format signature).
C3_SizeCheckFirst ==
  de.called =>
    /\ de.input.length > 9437184
         => /\ de.result.error.name = "RAMFSyntaxError"
            /\ de.result.steps = <<"validateMessageLength">>
    /\ de.input.length <= 9437184
         => /\ Len(de.result.steps) >= 2
            /\ de.result.steps[2] = "parseMessageFormatSignature"

\* C3 witness: serialize returned more than 9 MiB (the CA certificate is
\* attached to the largest payload) for the concrete message type 0x50, and
\* deserialize, expecting another type, rejected these very octets at the size
\* check, the format signature not looked at.
C3_Witness ==
  /\ ser.called
  /\ ser.result.error = NoError
  /\ de.called
  /\ de.input = ser.result.serialization
  /\ de.input.length > MAX_RAMF_MESSAGE_LENGTH
  /\ de.input.head[9] # de.type
  /\ de.result.error.name = "RAMFSyntaxError"
  /\ de.result.steps = <<"validateMessageLength">>

\* C4 (as stated): serialize never returns a serialization longer than
\* 9,437,184 octets, for any payload within the payload bound and any sender
\* certificate chain.
C4_SerializationWithinLimit ==
  (ser.called /\ ser.result.error = NoError)
    => ser.result.serialization.length <= MAX_RAMF_MESSAGE_LENGTH

\* C5: serialize fails exactly when a bound is violated (address over 1024
\* characters, id over 64 characters, TTL negative or over 15,552,000, payload
\* over 2^23 - 1 octets), with a RAMFSyntaxError and no bytes; the boundary
\* values are accepted; deserialize checks the same four bounds again, so it
\* constructs no message that violates one, and the bound checks fail with a
\* RAMFSyntaxError.
C5_Bounds ==
  /\ ser.called =>
       /\ (ser.result.error # NoError) <=> BoundViolated(ser.message)
       /\ ser.result.error # NoError
            => /\ ser.result.error.name = "RAMFSyntaxError"
               /\ ser.result.serialization = NoSerialization
               /\ pc = "done"
  /\ (de.called /\ de.result.error = NoError)
       => ~BoundViolated(de.result.message)
  /\ (FieldsDecoded
        /\ LET fields == parseMessageFields(de.input.cms.plaintext)
           IN /\ IsNodeAddress(fields.recipientAddress)
              /\ FieldBoundViolated(fields))
       => de.result.error.name = "RAMFSyntaxError"

\* C5 witness: a message with every field on its bound was serialized and
\* deserialized.
C5_Witness ==
  /\ RoundTripMade
  /\ Len(ser.message.recipientAddress) = MAX_RECIPIENT_ADDRESS_LENGTH
  /\ Len(ser.message.id) = MAX_ID_LENGTH
  /\ ser.message.ttl = RAMF_MAX_TTL
  /\ ser.message.payloadSerialized.len = MAX_PAYLOAD_LENGTH
  /\ de.result.error = NoError

\* C6: a serialization returned by serialize is the eight octets 'Relaynet',
\* the concrete message type octet, the concrete message version octet, then
\* the CMS SignedData; deserialize rejects with a RAMFSyntaxError an input
\* shorter than 10 octets and an input whose first eight octets are not
\* 'Relaynet' (the error comes from parseMessageFormatSignature).
C6_FormatSignature ==
  /\ (ser.called /\ ser.result.error = NoError) =>
       LET serialization == ser.result.serialization
       IN /\ serialization.head
               = <<82, 101, 108, 97, 121, 110, 101, 116, ser.type, ser.version>>
          /\ serialization.cms.wellFormed
          /\ serialization.length = 10 + serialization.cms.length
  /\ (de.called /\ ~HasFormatSignature(de.input)) =>
       /\ de.result.error.name = "RAMFSyntaxError"
       /\ de.input.length <= MAX_RAMF_MESSAGE_LENGTH
            => de.result.steps
                 = <<"validateMessageLength", "parseMessageFormatSignature">>

\* C6 witness: the output of serialize, its first octet altered, was rejected
\* by parseMessageFormatSignature with a RAMFSyntaxError.
C6_Witness ==
  /\ ser.called
  /\ ser.result.error = NoError
  /\ de.called
  /\ Len(de.input.head) = 10
  /\ de.input.head[1] = 114
  /\ SubSeq(de.input.head, 2, 10) = SubSeq(ser.result.serialization.head, 2, 10)
  /\ de.result.error.name = "RAMFSyntaxError"
  /\ LastStep(de.result) = "parseMessageFormatSignature"

\* The octets of the model in the notation of Number.prototype.toString(16).
OctetHex(n) ==
  CASE n = 0 -> "0x0"
    [] n = 1 -> "0x1"
    [] n = 80 -> "0x50"
    [] n = 81 -> "0x51"

\* C7: a concrete message type or version other than the expected one is a
\* RAMFSyntaxError whose message gives the expected and the actual value in
\* hexadecimal (0x...); the type is compared before the version, and both
\* before the signature is verified.
C7_TypeBeforeVersion ==
  (de.called /\ de.input.length <= MAX_RAMF_MESSAGE_LENGTH
     /\ HasFormatSignature(de.input)) =>
    LET actualType == de.input.head[9]
        actualVersion == de.input.head[10]
        stepsTaken == <<"validateMessageLength", "parseMessageFormatSignature",
                        "validateFileFormatSignature">>
    IN /\ actualType # de.type =>
            /\ de.result.error.name = "RAMFSyntaxError"
            /\ de.result.error.message
                 = "Expected concrete message type " \o OctetHex(de.type)
                   \o " but got " \o OctetHex(actualType)
            /\ de.result.steps = stepsTaken
       /\ (actualType = de.type /\ actualVersion # de.version) =>
            /\ de.result.error.name = "RAMFSyntaxError"
            /\ de.result.error.message
                 = "Expected concrete message version " \o OctetHex(de.version)
                   \o " but got " \o OctetHex(actualVersion)
            /\ de.result.steps = stepsTaken
       /\ (actualType = de.type /\ actualVersion = de.version) =>
            /\ Len(de.result.steps) >= 4
            /\ de.result.steps[4] = "verifySignature"

\* C7 witness: type and version both differ and the signature is invalid:
\* the error is the one about the type.
C7_Witness ==
  /\ de.called
  /\ Len(de.input.head) = 10
  /\ de.input.head[9] = 80
  /\ de.type = 81
  /\ de.input.head[10] = 0
  /\ de.version = 1
  /\ ~de.input.cms.signatureValid
  /\ de.result.error.message
       = "Expected concrete message type 0x51 but got 0x50"

\* C8: any failure of the CMS verification surfaces as a RAMFValidationError
\* wrapping the CMS error, whatever the signed field set is (malformed or out
\* of bounds included): verifySignature is the last function called, and no
\* deserialize call ends in a bare CMS error.
C8_SignatureFailureWrapped ==
  de.called =>
    /\ de.result.error.name # "CMSError"
    /\ (/\ de.input.length <= MAX_RAMF_MESSAGE_LENGTH
        /\ HasFormatSignature(de.input)
        /\ de.input.head[9] = de.type
        /\ de.input.head[10] = de.version
        /\ ~(de.input.cms.wellFormed /\ de.input.cms.signatureValid))
         => /\ de.result.error.name = "RAMFValidationError"
            /\ de.result.error.cause = "CMSError"
            /\ LastStep(de.result) = "verifySignature"

\* C8 witness: the signature over a plaintext that is no RAMF field set is
\* invalid, and deserialize failed with the wrapped CMS error.
C8_Witness ==
  /\ de.called
  /\ de.input.cms.wellFormed
  /\ ~de.input.cms.signatureValid
  /\ ~de.input.cms.plaintext.wellFormed
  /\ de.result.error.name = "RAMFValidationError"
  /\ de.result.error.cause = "CMSError"

(***************************************************************************)
(* Properties of the private key store (specification SpecKeys).           *)
(***************************************************************************)
\* The record the backend holds under the key id of the last call.
StoredRecord ==
  IF BufferToHex(ks.keyId) \in DOMAIN sessionKeys
    THEN sessionKeys[BufferToHex(ks.keyId)]
  ELSE NoKeyData

\* C9 (as stated): retrieveUnboundSessionKey never returns the key of a
\* record whose peerPrivateAddress is set, the empty string included: for a
\* record of the caller's node that is bound it raises UnknownKeyError
\* 'Key <id> is bound'.
C9_UnboundNeverReturnsBoundKey ==
  (/\ ks.op = "retrieveUnboundSessionKey"
   /\ ~failOnFetch
   /\ StoredRecord.stored
   /\ StoredRecord.privateAddress = ks.privateAddress
   /\ StoredRecord.peerPrivateAddress.defined)
    => /\ ks.key = "none"
       /\ ks.error
            = UnknownKeyError("Key " \o BufferToHex(ks.keyId) \o " is bound")

\* C10: in both retrieval operations, when the record the backend returns
\* belongs to another node than the caller's, the call raises UnknownKeyError
\* 'Key is owned by a different node' and returns no key; the owner is
\* checked before the peer the key is bound to.
C10_OwnershipCheckedFirst ==
  (/\ ks.op \in {"retrieveUnboundSessionKey", "retrieveSessionKey"}
   /\ ~failOnFetch
   /\ StoredRecord.stored
   /\ StoredRecord.privateAddress # ks.privateAddress)
    => /\ ks.key = "none"
       /\ ks.error = [name |-> "UnknownKeyError",
                      message |-> "Key is owned by a different node",
                      cause |-> "none"]

\* C10 witness: retrieveUnboundSessionKey on a bound key of another node
\* reports the owner, not the binding.
C10_Witness ==
  /\ ks.op = "retrieveUnboundSessionKey"
  /\ StoredRecord.stored
  /\ StoredRecord.privateAddress # ks.privateAddress
  /\ StoredRecord.peerPrivateAddress.defined
  /\ StoredRecord.peerPrivateAddress.value # ""
  /\ ks.error.message = "Key is owned by a different node"

\* The last call was a retrieval of a stored record by the node that owns it.
OwnRecordLookedUp ==
  /\ ~failOnFetch
  /\ StoredRecord.stored
  /\ StoredRecord.privateAddress = ks.privateAddress

\* C11 (as stated): retrieveSessionKey(keyId, privateAddress, peer) on a
\* record owned by privateAddress returns the key exactly when the record is
\* unbound (no peerPrivateAddress) or its peerPrivateAddress equals peer;
\* otherwise it raises UnknownKeyError with a message listing the bound peer
\* address and the supplied one.
C11_ReturnsKeyIffUnboundOrSamePeer ==
  (ks.op = "retrieveSessionKey" /\ OwnRecordLookedUp) =>
    IF \/ ~StoredRecord.peerPrivateAddress.defined
       \/ StoredRecord.peerPrivateAddress.value = ks.peerPrivateAddress.value
      THEN /\ ks.error = NoError
           /\ "der:" \o ks.key = StoredRecord.keySerialized
    ELSE /\ ks.key = "none"
         /\ ks.error.name = "UnknownKeyError"
         /\ ks.error.message
              = "Session key " \o BufferToHex(ks.keyId)
                \o " is bound to another recipient ("
                \o StoredRecord.peerPrivateAddress.value \o ", not "
                \o ks.peerPrivateAddress.value \o ")"

\* C12 (as stated): an unbound session key that was saved once is returned by
\* at most one retrieval (retrieveUnboundSessionKey or retrieveSessionKey, for
\* any peer).
C12_UnboundKeyUsedOnce ==
  \A keyIdHex \in DOMAIN keyUses :
    (/\ keyUses[keyIdHex].saves = "once"
     /\ keyIdHex \in DOMAIN sessionKeys
     /\ ~sessionKeys[keyIdHex].peerPrivateAddress.defined)
      => keyUses[keyIdHex].returned # "more"

\* The outcome of a generateIdentityKeyPair call, given the identity keys
\* held before and after it.
GenerateIdentityKeyPairOutcome(before, after, call) ==
  IF call.error = NoError
    THEN /\ call.key \in {pair.privateKey : pair \in RSAKeyPairs}
         /\ call.privateAddress \in DOMAIN after
         /\ retrieveIdentityKey(after, call.privateAddress) = call.key
         /\ \A a \in DOMAIN before : a # call.privateAddress
              => (a \in DOMAIN after /\ after[a] = before[a])
         /\ ~failOnSave
  ELSE /\ after = before
       /\ call.key = "none"
       /\ call.privateAddress = ""
       /\ call.error.name = "KeyStoreError" =>
            /\ failOnSave
            /\ call.error.cause = "Error"
            /\ call.error.message
                 \in {"Failed to save key for 06b86b273: Denied",
                      "Failed to save key for 0d4735e3a: Denied"}
       /\ call.error.name # "KeyStoreError" => call.error.name = "Error"

ErrorForKeyId(keyId) ==
  CASE ks.op = "retrieveUnboundSessionKey" ->
         retrieveUnboundSessionKey(sessionKeys, failOnFetch, keyId,
                                   ks.privateAddress).error
    [] ks.op = "retrieveSessionKey" ->
         retrieveSessionKey(sessionKeys, failOnFetch, keyId, ks.privateAddress,
                            ks.peerPrivateAddress.value).error
    [] ks.op = "saveSessionKey" ->
         saveSessionKey(sessionKeys, failOnSave, "key1", keyId,
                        ks.privateAddress, ks.peerPrivateAddress).error
    [] OTHER -> NoError

\* Every KeyStoreError wraps the error of the backend and keeps its message.
KeyStoreErrorWrapsCause ==
  ks.error.name = "KeyStoreError" =>
    /\ ks.error.cause = "Error"
    /\ ks.error.message
         \in {"Failed to save key for 06b86b273: Denied",
              "Failed to save key for 0d4735e3a: Denied",
              "Failed to save key " \o BufferToHex(ks.keyId) \o ": Denied",
              "Failed to retrieve key: Denied"}

\* C14 (as stated): every KeyStoreError raised by generateIdentityKeyPair,
\* saveSessionKey, retrieveUnboundSessionKey or retrieveSessionKey wraps the
\* cause, keeps its message and names the affected key id or subject address:
\* for the session key operations, the message depends on the key id.
C14_KeyStoreErrorNamesKey ==
  /\ KeyStoreErrorWrapsCause
  /\ (/\ ks.error.name = "KeyStoreError"
      /\ ks.op \in {"saveSessionKey", "retrieveUnboundSessionKey",
                    "retrieveSessionKey"})
       => \A other \in KeyIds \ {ks.keyId} :
            ErrorForKeyId(other).message # ks.error.message

\* C14 (amended): every KeyStoreError raised by a PrivateKeyStore operation
\* wraps the backend's error and keeps its message after ': '.  The message of
\* generateIdentityKeyPair names the subject address ('Failed to save key for
\* <address>: <cause>') and that of saveSessionKey the key id ('Failed to save
\* key <id>: <cause>'); the message of the two retrievals is 'Failed to
\* retrieve key: <cause>' and names no key id.
C14_KeyStoreErrorMessages ==
  /\ KeyStoreErrorWrapsCause
  /\ ks.error.name = "KeyStoreError" =>
       CASE ks.op = "generateIdentityKeyPair" ->
              /\ failOnSave
              /\ ks.error.message
                   \in {"Failed to save key for 06b86b273: Denied",
                        "Failed to save key for 0d4735e3a: Denied"}
         [] ks.op = "saveSessionKey" ->
              /\ failOnSave
              /\ ks.error.message
                   = "Failed to save key " \o BufferToHex(ks.keyId) \o ": Denied"
              /\ \A other \in KeyIds \ {ks.keyId} :
                   ErrorForKeyId(other).message # ks.error.message
         [] ks.op \in {"retrieveUnboundSessionKey", "retrieveSessionKey"} ->
              /\ failOnFetch
              /\ ks.error.message = "Failed to retrieve key: Denied"
         [] OTHER -> FALSE
  /\ (failOnFetch /\ ks.op \in {"retrieveUnboundSessionKey", "retrieveSessionKey"})
       => ks.error.name = "KeyStoreError"
  /\ (failOnSave /\ ks.op = "saveSessionKey") => ks.error.name = "KeyStoreError"

\* C14 witness: a retrieval failed in the backend and the KeyStoreError names
\* no key id.
C14_Witness ==
  /\ ks.op = "retrieveSessionKey"
  /\ ks.error.name = "KeyStoreError"
  /\ ks.error.cause = "Error"
  /\ ks.error.message = "Failed to retrieve key: Denied"

\* The records stored for a subject under an issuer.
RecordsFor(data, subjectPrivateAddress, issuerPrivateAddress) == SelectSeq(CertificateDataOf(data, subjectPrivateAddress), LAMBDA d : d.issuerPrivateAddress = issuerPrivateAddress)

\* The records of a list that have not expired at an instant.
LiveRecords(records, currentDate) == {k \in 1..Len(records) : records[k].expiryDate > currentDate}

\* The number of positions of a sequence holding a value.
Occurrences(seq, value) == Cardinality({k \in 1..Len(seq) : seq[k] = value})

\* The store a successful save of the path leaves: the one before with one
\* more record at the end of the list of the leaf's subject.
WithRecordAdded(before, path, issuerPrivateAddress) ==
  LET subject == calculateSubjectPrivateAddress(path.leafCertificate)
      record == [serialization |-> CertificationPath_serialize(path),
                 expiryDate |-> path.leafCertificate.expiryDate,
                 issuerPrivateAddress |-> issuerPrivateAddress]
  IN /\ DOMAIN dataByPrivateAddress = (DOMAIN before) \cup {subject}
     /\ \A a \in DOMAIN dataByPrivateAddress :
          dataByPrivateAddress[a] =
            IF a = subject
            THEN (IF a \in DOMAIN before THEN before[a] ELSE <<>>) \o <<record>>
            ELSE before[a]

\* C15 (as stated): save(path, issuerPrivateAddress) does nothing when the
\* leaf of the path has expired (expiryDate <= now): the store is left as it
\* was and a retrieveLatest / retrieveAll that follows for that subject
\* returns null / empty.  Otherwise it adds one record with the serialization
\* of the path, the expiry date of the leaf and the issuer address given,
\* under the private address of the leaf's subject.
C15_SaveSkippedThenNothingRetrieved ==
  cs.op = "save" =>
    LET leaf == cs.path.leafCertificate
        subject == calculateSubjectPrivateAddress(leaf)
        issuer == cs.issuerPrivateAddress
        latest == CertificateStore_retrieveLatest(dataByPrivateAddress, now, subject, issuer)
        all == CertificateStore_retrieveAll(dataByPrivateAddress, now, subject, issuer)
    IN IF leaf.expiryDate <= cs.at
       THEN /\ dataByPrivateAddress = cs.before
            /\ latest = NullPath
            /\ all = <<>>
       ELSE WithRecordAdded(cs.before, cs.path, issuer)

\* C15 (amended): save(path, issuerPrivateAddress) does nothing when the leaf
\* of the path has expired (expiryDate <= now): the store is left as it was,
\* so a retrieveLatest / retrieveAll that follows for that subject and issuer
\* never returns the path, and returns null / empty exactly when the store
\* held no unexpired record for them before the call; an unexpired record
\* held before is still returned.  Otherwise save adds one record with the
\* serialization of the path, the expiry date of the leaf and the issuer
\* address given, under the private address of the leaf's subject.
C15_SaveSkipsExpired ==
  cs.op = "save" =>
    LET leaf == cs.path.leafCertificate
        subject == calculateSubjectPrivateAddress(leaf)
        issuer == cs.issuerPrivateAddress
        latest == CertificateStore_retrieveLatest(dataByPrivateAddress, now, subject, issuer)
        all == CertificateStore_retrieveAll(dataByPrivateAddress, now, subject, issuer)
        heldBefore == LiveRecords(RecordsFor(cs.before, subject, issuer), now)
    IN IF leaf.expiryDate <= cs.at
       THEN /\ dataByPrivateAddress = cs.before
            /\ latest # cs.path
            /\ Occurrences(all, cs.path) = 0
            /\ latest = CertificateStore_retrieveLatest(cs.before, now, subject, issuer)
            /\ all = CertificateStore_retrieveAll(cs.before, now, subject, issuer)
            /\ (heldBefore = {}) <=> (latest = NullPath)
            /\ (heldBefore = {}) <=> (all = <<>>)
       ELSE WithRecordAdded(cs.before, cs.path, issuer)

\* C15 witness: an expired path is offered, at the very instant it expires,
\* to a store that holds an unexpired record for the same subject and issuer;
\* the store is left as it was and retrieveLatest still returns that record.
C15_Witness ==
  /\ cs.op = "save"
  /\ cs.path.leafCertificate.expiryDate = cs.at
  /\ now = cs.at
  /\ dataByPrivateAddress = cs.before
  /\ LiveRecords(RecordsFor(cs.before,
                            calculateSubjectPrivateAddress(cs.path.leafCertificate),
                            cs.issuerPrivateAddress), now) # {}
  /\ CertificateStore_retrieveLatest(dataByPrivateAddress, now,
        calculateSubjectPrivateAddress(cs.path.leafCertificate),
        cs.issuerPrivateAddress) # NullPath

\* C16: retrieveLatest(s, i) returns the path of a record stored for (s, i)
\* whose expiry date is not before that of any other record stored for
\* (s, i), provided that record has not expired; it returns null when
\* nothing is stored for (s, i) or everything stored for them has expired;
\* a record stored under another issuer is never returned.
C16_LatestIsGreatestExpiry ==
  cs.op = "retrieveLatest" =>
    LET records == RecordsFor(dataByPrivateAddress, cs.subjectPrivateAddress, cs.issuerPrivateAddress)
        live == LiveRecords(records, cs.at)
    IN IF live = {}
       THEN cs.result = NullPath
       ELSE \E k \in live :
              /\ cs.result = CertificationPath_deserialize(records[k].serialization)
              /\ cs.result.leafCertificate.expiryDate = records[k].expiryDate
              /\ \A j \in 1..Len(records) : records[k].expiryDate >= records[j].expiryDate
              /\ calculateSubjectPrivateAddress(cs.result.leafCertificate) = cs.subjectPrivateAddress

\* A path is returned while the store holds, for the same subject, an
\* expired record of the same issuer and a record of another issuer that
\* expires later than the one returned.
C16_Witness ==
  /\ cs.op = "retrieveLatest"
  /\ cs.result # NullPath
  /\ LET records == RecordsFor(dataByPrivateAddress, cs.subjectPrivateAddress, cs.issuerPrivateAddress)
         others == CertificateDataOf(dataByPrivateAddress, cs.subjectPrivateAddress)
     IN /\ \E k \in 1..Len(records) : records[k].expiryDate <= cs.at
        /\ \E k \in 1..Len(others) :
             /\ others[k].issuerPrivateAddress # cs.issuerPrivateAddress
             /\ others[k].expiryDate > cs.result.leafCertificate.expiryDate

\* C17: retrieveAll(subject, issuer) returns exactly the paths stored for
\* the subject and the issuer that have not expired: each as many times as
\* it is stored, none that has expired (however it was stored), none stored
\* under another issuer.
C17_AllNonExpired ==
  cs.op = "retrieveAll" =>
    LET records == RecordsFor(dataByPrivateAddress, cs.subjectPrivateAddress, cs.issuerPrivateAddress)
        live == LiveRecords(records, cs.at)
    IN /\ Len(cs.result) = Cardinality(live)
       /\ \A path \in CertificationPaths :
            Occurrences(cs.result, path) = Cardinality({k \in live : records[k].serialization = CertificationPath_serialize(path)})

\* Paths are returned while the store holds, for the same subject, an
\* expired record of the same issuer and a live record of another issuer.
C17_Witness ==
  /\ cs.op = "retrieveAll"
  /\ cs.result # <<>>
  /\ LET records == RecordsFor(dataByPrivateAddress, cs.subjectPrivateAddress, cs.issuerPrivateAddress)
         others == CertificateDataOf(dataByPrivateAddress, cs.subjectPrivateAddress)
     IN /\ \E k \in 1..Len(records) : records[k].expiryDate <= cs.at
        /\ \E k \in 1..Len(others) :
             /\ others[k].issuerPrivateAddress # cs.issuerPrivateAddress
             /\ others[k].expiryDate > cs.at

\* The creation time of the key held for a peer, 0 for none.
StoredCreationTime(keys, peerPrivateAddress) == IF peerPrivateAddress \in DOMAIN keys THEN keys[peerPrivateAddress].publicKeyCreationTime ELSE 0

\* C18: saving a session key of a peer does nothing when the creation time
\* given is earlier than that of the key held for the peer; the creation
\* time held for a peer never decreases; and the key held is the latest
\* seen: its creation time is the latest given to the store for the peer
\* since the mock was last written directly (registerSessionKey, clear),
\* and a key created later than the one held replaces it.
C18_LatestSessionKeyWins ==
  /\ \A peer \in DOMAIN peerSessionKeys : peerSessionKeys[peer].publicKeyCreationTime = LatestSeenOf(latestSeen, peer)
  /\ pks.op = "saveSessionKey" =>
       LET held == StoredCreationTime(pks.before, pks.peerPrivateAddress)
       IN /\ \A peer \in PeerPrivateAddresses : StoredCreationTime(peerSessionKeys, peer) >= StoredCreationTime(pks.before, peer)
          /\ pks.creationTime < held => peerSessionKeys = pks.before
          /\ (pks.creationTime < held /\ ~peerFetchError) => pks.error = NoError
          /\ (pks.creationTime > held /\ pks.error = NoError) =>
               /\ peerSessionKeys[pks.peerPrivateAddress] = SessionPublicKeyData(pks.key, pks.creationTime)
               /\ \A peer \in DOMAIN pks.before \ {pks.peerPrivateAddress} : peerSessionKeys[peer] = pks.before[peer]
          /\ pks.error # NoError => peerSessionKeys = pks.before

\* A key created earlier than the one held for the peer, and other than
\* it, is given to the store.
C18_Witness ==
  /\ pks.op = "saveSessionKey"
  /\ pks.peerPrivateAddress \in DOMAIN pks.before
  /\ pks.creationTime < pks.before[pks.peerPrivateAddress].publicKeyCreationTime
  /\ pks.key.keyId # pks.before[pks.peerPrivateAddress].publicKeyId
  /\ pks.before[pks.peerPrivateAddress].publicKeyCreationTime = 3000

\* The start date requested by a call of Certificate.issue, in whole seconds.
RequestedStart(call) == LET date == IF call.options.validityStartDate.defined THEN call.options.validityStartDate.value ELSE call.currentDate IN (date \div 1000) * 1000

\* The end date a call of Certificate.issue has to use, in whole seconds:
\* the earlier of the requested end date and the issuer's expiry date.
ClampedEnd(call) ==
  LET issuer == call.options.issuerCertificate
      requested == call.options.validityEndDate
      date == IF issuer # NoCertificate /\ issuer.expiryDate < requested
              THEN issuer.expiryDate
              ELSE requested
  IN (date \div 1000) * 1000

\* C19: Certificate.issue clamps the end date to the earlier of
\* validityEndDate and the issuer certificate's expiry date when an issuer
\* certificate is given, so a certificate issued under an issuer never
\* outlives it (and carries the issuer's name as its issuer); every issued
\* certificate starts no later than it ends, and both dates are whole
\* seconds.
C19_EndDateClamped ==
  (ic.op = "issue" /\ ic.certificate # NoCertificate) =>
    LET c == ic.certificate
        i == ic.options.issuerCertificate
    IN /\ c.expiryDate = ClampedEnd(ic)
       /\ c.startDate = RequestedStart(ic)
       /\ c.startDate <= c.expiryDate
       /\ c.startDate % 1000 = 0
       /\ c.expiryDate % 1000 = 0
       /\ i # NoCertificate =>
            /\ c.expiryDate <= i.expiryDate
            /\ c.issuerCommonName = i.commonName

\* A certificate is issued under an issuer that expires before the end
\* date requested, and neither date requested is a whole second.
C19_Witness ==
  /\ ic.op = "issue"
  /\ ic.certificate # NoCertificate
  /\ ic.options.issuerCertificate # NoCertificate
  /\ ic.options.issuerCertificate.expiryDate < ic.options.validityEndDate
  /\ ic.options.validityEndDate % 1000 # 0
  /\ ic.options.validityStartDate.defined
  /\ ic.options.validityStartDate.value % 1000 # 0
  /\ ic.options.issuerCertificate.commonName # ic.options.commonName

\* C20: Certificate.issue checks first that the end date is not before the
\* start date, and then, if an issuer certificate is given, that the issuer
\* has the basic constraints extension with cA true.  A request failing
\* both checks gets the CertificateError of the dates; a request with good
\* dates under an issuer that is not a CA gets CertificateError 'Issuer is
\* not a CA'; and a call that fails produces no certificate.
C20_DatesBeforeIssuer ==
  ic.op = "issue" =>
    LET i == ic.options.issuerCertificate
        datesBad == ClampedEnd(ic) < RequestedStart(ic)
    IN /\ datesBad => ic.error = CertificateError("The end date must be later than the start date")
       /\ (~datesBad /\ i # NoCertificate /\ ~i.basicConstraints.present) =>
            ic.error = CertificateError("Basic constraints extension is missing from issuer certificate")
       /\ (~datesBad /\ i # NoCertificate /\ i.basicConstraints.present /\ ~i.basicConstraints.cA) =>
            ic.error = CertificateError("Issuer is not a CA")
       /\ ic.error # NoError => ic.error.name = "CertificateError" /\ ic.certificate = NoCertificate
       /\ ic.error = NoError => ic.certificate # NoCertificate

\* A request with the end date before the start date and an issuer whose
\* basic constraints say it is not a CA fails with the error of the dates.
C20_Witness ==
  /\ ic.op = "issue"
  /\ ic.options.issuerCertificate # NoCertificate
  /\ ic.options.issuerCertificate.basicConstraints.present
  /\ ~ic.options.issuerCertificate.basicConstraints.cA
  /\ ic.options.validityEndDate < RequestedStart(ic)
  /\ ic.error = CertificateError("The end date must be later than the start date")

\* '0' followed by the hexadecimal SHA-256 digest of the subject key of a
\* certificate object.
ExpectedAddress(object) == "0" \o Sha256Hex(SubjectKeyOf(object))

\* C21: on one certificate every call of calculateSubjectPrivateAddress,
\* whether it runs alone or interleaved with other calls at its suspension
\* points, returns '0' followed by the hexadecimal SHA-256 digest of the
\* subject key; privateAddressCache goes from null to that value and never
\* changes afterwards; equal certificates return equal values.
C21_AddressMemoized ==
  /\ [](\A n \in 1..Len(calls) : calls[n].pc = "returned" => calls[n].result = ExpectedAddress(calls[n].certificate))
  /\ [](\A n, m \in 1..Len(calls) :
          (calls[n].pc = "returned" /\ calls[m].pc = "returned"
             /\ SubjectKeyOf(calls[n].certificate) = SubjectKeyOf(calls[m].certificate))
            => calls[n].result = calls[m].result)
  /\ [](\A c \in DOMAIN privateAddressCache : privateAddressCache[c] \in {NullAddress, ExpectedAddress(c)})
  /\ [][\A c \in DOMAIN privateAddressCache : privateAddressCache[c] # NullAddress => privateAddressCache'[c] = privateAddressCache[c]]_vars

\* Two calls on one certificate both found the cache empty and both have
\* returned, and a call on an equal certificate has returned too.
C21_Witness ==
  /\ Len(calls) = 3
  /\ \A n \in 1..3 : calls[n].pc = "returned" /\ calls[n].publicKey # ""
  /\ calls[1].certificate = calls[2].certificate
  /\ calls[3].certificate # calls[1].certificate
  /\ SubjectKeyOf(calls[3].certificate) = SubjectKeyOf(calls[1].certificate)

\* C22: SessionlessEnvelopedData.encrypt and SessionEnvelopedData.encrypt
\* fail with a CMS error for every AES key size asked for outside
\* {128, 192, 256}, 0 and negative sizes included, and produce no
\* EnvelopedData then; they use 128 when no size is given.
C22_AesKeySizeChecked ==
  ed.op \in {"SessionlessEnvelopedData.encrypt", "SessionEnvelopedData.encrypt"} =>
    IF ~ed.aesKeySize.defined
    THEN ed.error = NoError /\ ed.envelopedData.pkijsEnvelopedData.encryptedContent.length = 128
    ELSE IF ed.aesKeySize.value \notin {128, 192, 256}
    THEN ed.error.name = "CMSError" /\ ed.envelopedData = NoEnvelopedData
    ELSE ed.error = NoError /\ ed.envelopedData.pkijsEnvelopedData.encryptedContent.length = ed.aesKeySize.value

\* C23: EnvelopedData.deserialize accepts a value only if it holds exactly
\* one RecipientInfo of variant 1 or 2, giving a SessionlessEnvelopedData
\* for variant 1 and a SessionEnvelopedData for variant 2; it raises a CMS
\* error for no or several RecipientInfos, for another variant and for a
\* ContentInfo of another content type; the content type is checked first,
\* then the structure, then the count, then the variant.
C23_OneSupportedRecipientInfo ==
  ed.op = "EnvelopedData.deserialize" =>
    LET wrongType == ed.input.contentType # CMS_OIDS_ENVELOPED_DATA
        infos == ed.input.content.recipientInfos
    IN /\ ed.error # NoError <=> ed.envelopedData = NoEnvelopedData
       /\ ed.error # NoError => ed.error.name = "CMSError"
       /\ ed.input.isContentInfo =>
            IF wrongType
            THEN ed.error = CMSError("ContentInfo does not wrap an EnvelopedData value (got OID " \o ed.input.contentType \o ")")
            ELSE IF ~ed.input.contentValid
            THEN ed.error = CMSErrorWrapping("Object's schema was not verified against input data for EnvelopedData", "Invalid EnvelopedData value")
            ELSE IF Len(infos) # 1
            THEN ed.error = CMSError("EnvelopedData must have exactly one RecipientInfo (got " \o ToString(Len(infos)) \o ")")
            ELSE IF infos[1].variant \notin {1, 2}
            THEN ed.error = CMSError("Unsupported RecipientInfo (variant: " \o ToString(infos[1].variant) \o ")")
            ELSE /\ ed.error = NoError
                 /\ ed.envelopedData.class = (IF infos[1].variant = 1 THEN "SessionlessEnvelopedData" ELSE "SessionEnvelopedData")
                 /\ ed.envelopedData.pkijsEnvelopedData = ed.input.content

\* A value with two RecipientInfos, the first of a variant that is not
\* supported, is refused for their number.
C23_Witness ==
  /\ ed.op = "EnvelopedData.deserialize"
  /\ ed.input.isContentInfo
  /\ ed.input.contentType = CMS_OIDS_ENVELOPED_DATA
  /\ ed.input.contentValid
  /\ Len(ed.input.content.recipientInfos) = 2
  /\ ed.input.content.recipientInfos[1].variant = 3
  /\ ed.error = CMSError("EnvelopedData must have exactly one RecipientInfo (got 2)")

\* C27: the serial number of an issued certificate is a positive INTEGER:
\* for every 64-bit random value its octets are the eight random octets
\* when the first is at most 127 and those octets after a 0x00 octet
\* otherwise, so there are eight or nine of them, the sign bit is not set
\* and the value is greater than zero.
C27_SerialNumberPositive ==
  sn.op = "generatePositiveASN1Integer" =>
    /\ sn.valueHex = (IF sn.random[1] <= 127 THEN sn.random ELSE <<0>> \o sn.random)
    /\ Len(sn.valueHex) \in {8, 9}
    /\ sn.valueHex[1] < 128
    /\ \E k \in 1..Len(sn.valueHex) : sn.valueHex[k] # 0

\* The same without the value being greater than zero: the octets, their
\* number and the sign bit.
C27_SerialNumberNotNegative ==
  sn.op = "generatePositiveASN1Integer" =>
    /\ sn.valueHex = (IF sn.random[1] <= 127 THEN sn.random ELSE <<0>> \o sn.random)
    /\ Len(sn.valueHex) \in {8, 9}
    /\ sn.valueHex[1] < 128

\* The generator is between two cargoes, or has ended without an error.
BetweenCargoes == gen.status \in {"suspended", "done"}

\* The generator is making the cargo of the batch it took last.
MakingCargo == gen.status \in {"encrypting", "serializing"}

\* C25 (as stated): every cargo that generateCargoes yields has as creation
\* date the time at which its batch was taken less three hours, in whole
\* seconds, and as TTL the lesser of the whole seconds from that date to the
\* expiry date of its batch and 15552000; the cargoes are one per batch, in
\* the order of the batches.
C25_CargoCreationAndTtl ==
  gen.status # "none" =>
    /\ Len(gen.yielded) <= Len(gen.taken)
    /\ BetweenCargoes => Len(gen.yielded) = Len(gen.taken)
    /\ \A n \in 1..Len(gen.yielded) :
         LET cargo == gen.yielded[n].cargo
             batch == gen.taken[n].batch
             at == gen.taken[n].at
             creationSeconds == at.seconds - 3 * 3600
             secondsToExpiry == batch.expiryDate.seconds - creationSeconds
         IN /\ cargo.creationDate = creationSeconds * 1000
            /\ cargo.ttl = (IF secondsToExpiry < 15552000 THEN secondsToExpiry ELSE 15552000)
            /\ cargo.payloadSerialized = encryptPayload(batch.messageSerialized)
            /\ gen.yielded[n].serialization.cms.plaintext.date.seconds = creationSeconds
            /\ gen.yielded[n].serialization.cms.plaintext.ttl = IntegerOctets(cargo.ttl)

\* The hours between the creation date of a cargo and the time at which its
\* batch was taken, in a time zone whose clocks were changed an hour before
\* the clock started: three when they were not changed, four when they were
\* put back and two when they were put forward.
HoursBack(zone) ==
  IF zone.before = zone.after THEN 3 ELSE IF zone.after < zone.before THEN 4 ELSE 2

\* What generateCargoes does: the creation date is HoursBack(timeZone) hours
\* before the time at which the batch was taken, in whole seconds, however
\* long the cargo took to make, and the TTL is counted from that date.
C25_CreationFollowsLocalTime ==
  gen.status # "none" =>
    /\ BetweenCargoes => Len(gen.yielded) = Len(gen.taken)
    /\ \A n \in 1..Len(gen.yielded) :
         LET cargo == gen.yielded[n].cargo
             batch == gen.taken[n].batch
             creationSeconds == gen.taken[n].at.seconds - HoursBack(timeZone) * 3600
             secondsToExpiry == batch.expiryDate.seconds - creationSeconds
         IN /\ cargo.creationDate = creationSeconds * 1000
            /\ cargo.ttl = (IF secondsToExpiry < 15552000 THEN secondsToExpiry ELSE 15552000)
            /\ cargo.payloadSerialized = encryptPayload(batch.messageSerialized)

\* C30 (as stated): the TTL is not kept from being negative: when the expiry
\* date of a batch is earlier than the time at which it was taken less three
\* hours, the generator ends with the SyntaxError 'TTL cannot be negative'
\* and yields no cargo for that batch nor for a later one, the cargoes
\* yielded before staying as they were.
C30_NegativeTtlEndsGenerator ==
  /\ [](gen.status # "none" =>
         \A n \in 1..Len(gen.taken) :
           LET batch == gen.taken[n].batch
               creationSeconds == gen.taken[n].at.seconds - 3 * 3600
           IN (batch.expiryDate.seconds < creationSeconds /\ ~MakingCargo) =>
                /\ gen.status = "failed"
                /\ gen.error = RAMFSyntaxError("TTL cannot be negative")
                /\ n = Len(gen.taken)
                /\ Len(gen.yielded) = n - 1)
  /\ [][(gen.status = "failed") =>
          /\ gen' = gen
          /\ batches' = batches]_vars

\* What generateCargoes does: the same, for a batch whose expiry date is
\* earlier than the creation date that the local time gives.
C30_NegativeTtlFromCreationDate ==
  /\ [](gen.status # "none" =>
         \A n \in 1..Len(gen.taken) :
           LET batch == gen.taken[n].batch
               creationSeconds == gen.taken[n].at.seconds - HoursBack(timeZone) * 3600
           IN (batch.expiryDate.seconds < creationSeconds /\ ~MakingCargo) =>
                /\ gen.status = "failed"
                /\ gen.error = RAMFSyntaxError("TTL cannot be negative")
                /\ n = Len(gen.taken)
                /\ Len(gen.yielded) = n - 1)
  /\ [][(gen.status = "failed") =>
          /\ gen' = gen
          /\ batches' = batches]_vars

\* C26: deserialize reads the TTL as an integer of any size and fails at
\* once when it exceeds 2^53 - 1: the error is thrown where the fields are
\* parsed, before the number is narrowed and before validateTtl checks its
\* range.
C26_TtlFailsEarly ==
  (tp.op = "deserialize" /\ ExceedsMaxSafeInteger(tp.ttl)) =>
    /\ tp.result.error # NoError
    /\ tp.result.steps[Len(tp.result.steps)] = "parseMessageFields"

\* What deserialize does with such a TTL: it is refused, and by
\* validateTtl.
C26_TtlRefusedByRangeCheck ==
  (tp.op = "deserialize" /\ ExceedsMaxSafeInteger(tp.ttl)) =>
    /\ tp.result.error.name = "RAMFSyntaxError"
    /\ tp.result.steps[Len(tp.result.steps)] = "validateTtl"

\* C29: session keys are held under their key id alone and the last
\* saveSessionKey wins: a save that succeeds puts its owner and its peer in
\* the one record of the key id, whoever owned it before; while the record
\* belongs to another node, every retrieval of the key id that the backend
\* serves raises UnknownKeyError 'Key is owned by a different node'; a
\* save that fails leaves the records as they were.
C29_LastSaveWins ==
  /\ [][(ks'.op = "saveSessionKey" /\ ks'.error = NoError) =>
          LET keyIdHex == BufferToHex(ks'.keyId)
          IN /\ DOMAIN sessionKeys' = DOMAIN sessionKeys \cup {keyIdHex}
             /\ sessionKeys'[keyIdHex].stored
             /\ sessionKeys'[keyIdHex].privateAddress = ks'.privateAddress
             /\ sessionKeys'[keyIdHex].peerPrivateAddress = ks'.peerPrivateAddress
             /\ \A k \in DOMAIN sessionKeys \ {keyIdHex} : sessionKeys'[k] = sessionKeys[k]]_vars
  /\ []((/\ ks.op \in {"retrieveSessionKey", "retrieveUnboundSessionKey"}
         /\ ~failOnFetch
         /\ BufferToHex(ks.keyId) \in DOMAIN sessionKeys
         /\ sessionKeys[BufferToHex(ks.keyId)].privateAddress # ks.privateAddress)
        => ks.error = UnknownKeyError("Key is owned by a different node"))
  /\ [][(ks'.op = "saveSessionKey" /\ ks'.error # NoError) => sessionKeys' = sessionKeys]_vars

\* A save by the second node failed while the backend held the record of
\* the first.
C29_FailedSaveWitness ==
  /\ ks.op = "saveSessionKey"
  /\ ks.error # NoError
  /\ ks.privateAddress = "0bb"
  /\ sessionKeys # <<>>

\* Two saves under the key id succeeded, the last one by the second node
\* and with a peer, and the first node was then refused the key.
C29_Witness ==
  /\ ks.op = "retrieveSessionKey"
  /\ ks.privateAddress = "0aa"
  /\ ks.error = UnknownKeyError("Key is owned by a different node")
  /\ KeyUse(keyUses, BufferToHex(ks.keyId)).saves = "more"
  /\ BufferToHex(ks.keyId) \in DOMAIN sessionKeys
  /\ sessionKeys[BufferToHex(ks.keyId)].privateAddress = "0bb"
  /\ sessionKeys[BufferToHex(ks.keyId)].peerPrivateAddress.defined

\* The latest certificate that the node issued to itself among those of a
\* store, or null.
StoredLatestIssuer(data) ==
  LET serialization == retrieveLatestSerialization(data, NodePrivateAddress, NodePrivateAddress)
  IN IF serialization = NullSerialization THEN NoCertificate
     ELSE CertificationPath_deserialize(serialization).leafCertificate

\* A call that returned less than 90 days after the date that it took at
\* its start (line 17): the clock reads of the certificate store during the
\* call are less than 90 days after that date.
CallAtItsDate(call) == call.returned - call.date < 90 * DayLength

C28_BothCallsIssue ==
  \A m, n \in 1..Len(cdaHistory) :
    (m # n /\ cdaHistory[m].issued /\ cdaHistory[n].issued /\ cdaHistory[m].storeAtCheck = cdaHistory[n].storeAtCheck /\ CallAtItsDate(cdaHistory[m]) /\ CallAtItsDate(cdaHistory[n]) /\ Len(CdaRecords(cdaHistory[m].storeSaved)) <= Len(CdaRecords(cdaHistory[n].storeSaved))) =>
      LET first == cdaHistory[m]
          second == cdaHistory[n]
          recordOf(call) == [serialization |-> CertificationPath_serialize(CertificationPath(call.result, <<>>)), expiryDate |-> call.result.expiryDate, issuerPrivateAddress |-> NodePrivateAddress]
          records == CdaRecords(second.storeSaved)
          firstRecords == CdaRecords(first.storeSaved)
          held == CdaRecords(dataByPrivateAddress)
      IN /\ Len(records) >= Len(CdaRecords(first.storeAtCheck)) + 2
         /\ Len(firstRecords) < Len(records)
         /\ firstRecords[Len(firstRecords)] = recordOf(first)
         /\ records[Len(firstRecords)] = recordOf(first)
         /\ records[Len(records)] = recordOf(second)
         /\ Len(held) >= Len(records)
         /\ held[Len(firstRecords)] = recordOf(first)
         /\ held[Len(records)] = recordOf(second)
         /\ first.caller # second.caller
         /\ (first.result.serialNumber # second.result.serialNumber) =>
              /\ first.result # second.result
              /\ recordOf(first) # recordOf(second)

\* Two calls begun at the same time over an empty store both issued: the
\* store holds two records and the callers have different certificates.
C28_Witness ==
  /\ Len(cdaHistory) = 2
  /\ cdaHistory[1].issued
  /\ cdaHistory[2].issued
  /\ cdaHistory[1].storeAtCheck = <<>>
  /\ cdaHistory[2].storeAtCheck = <<>>
  /\ cdaHistory[1].date = cdaHistory[2].date
  /\ cdaHistory[1].result # cdaHistory[2].result
  /\ Len(CdaRecords(dataByPrivateAddress)) = 2
  /\ CdaRecords(dataByPrivateAddress)[1] # CdaRecords(dataByPrivateAddress)[2]

====
